---------------------------- MODULE Spec2Model ----------------------------
(***************************************************************************)
(* Model of the cross-thread core of the Augmented Reality Sandbox         *)
(* (Sandbox.h / Sandbox.cpp):                                              *)
(*   - the grid read-back channel Sandbox::GridRequest (requestGrids,      *)
(*     getRequest) used by requester threads and by Sandbox::display;      *)
(*   - the water simulation update block of Sandbox::display, with its     *)
(*     self-throttled stepping loop;                                       *)
(*   - the hand-off of filtered depth frames from the frame filter's       *)
(*     thread (Sandbox::receiveFilteredFrame) to the foreground thread     *)
(*     (Sandbox::frame) through Threads::TripleBuffer.                     *)
(*                                                                         *)
(* Pointers are integers, 0 is the null pointer.  Times are integers in    *)
(* units of 1.0e-8 s, the threshold of the stepping loop.                  *)
(***************************************************************************)
EXTENDS Integers, Sequences, FiniteSets, TLC

(***************************************************************************)
(* Bounds of the model.                                                    *)
(***************************************************************************)
MaxSubmits == 3
    \* calls of requestGrids, all requester threads together
MaxCycles == 2
    \* Vrui frames after start-up
MaxFrameTime == 2
    \* largest Vrui::getFrameTime() of a frame
MaxSpeed == 2
    \* largest water speed set on the control pipe
MaxStepsCap == 2
    \* largest waterMaxSteps set on the control pipe
MaxCfl == 3
    \* largest step size the stability constraint allows
MaxMinStep == 1
    \* largest forced minimum step size (-wmts)
MaxFrames == 3
    \* filtered frames the frame filter posts
MaxSlots == 2
    \* largest number of averaging slots of the frame filter
MaxSample == 4
    \* largest raw sample of the pixel
MaxVariance == 4
    \* largest maxVariance of the frame filter
MaxHysteresis == 2
    \* largest hysteresis of the frame filter
MaxTicks == 4
    \* raw frames the frame filter receives
MaxLines == 2
    \* lines in the chunk read from the control pipe
MaxElevation == 2
    \* top of the elevation range; the cells' elevations are 0..MaxElevation
MaxRain == 1
    \* largest rain strength
MaxForcedStep == 3
    \* largest forced minimum step size of the stepping slice
MaxPresses == 2
    \* presses of the pause button and clicks of the pause toggle

(***************************************************************************)
(* Program constants.                                                      *)
(***************************************************************************)
Epsilon == 1
    \* 1.0e-8f in the loop condition of Sandbox::display

Requesters == {"r1", "r2"}
    \* threads calling requestGrids (remote server, bathymetry saver tool)

Min(a, b) == IF a < b THEN a ELSE b
Max(a, b) == IF a > b THEN a ELSE b

VARIABLES
    \* Sandbox::GridRequest
    currentRequest,     \* GridRequest::currentRequest
    mutex,              \* GridRequest::mutex: "unlocked" or the owning thread
    \* requester threads, each inside or between calls of requestGrids
    rpc,                \* position of each requester in requestGrids
    rargs,              \* arguments of the requester's current / last call
    rresult,            \* return value of the last call: "none", "granted", "refused"
    rsubmits,           \* number of calls of requestGrids made so far
    rEmptyAtCall,       \* history: the slot was inactive when the call was issued
    rTaken,             \* history: getRequest ran since the call was issued
    lastGrant,          \* history: <<a>> if the last operation on the slot was
                        \* a granted requestGrids storing a, else <<>>
    \* foreground thread (Vrui main loop: frame, then display)
    mpc,                \* position of the foreground thread
    appTime,            \* Vrui::getApplicationTime()
    frameTime,          \* Vrui::getFrameTime()
    controlPipeOpen,    \* controlPipeFd>=0
    waterTable,         \* waterTable!=0
    waterTableTime,     \* DataItem::waterTableTime
    waterSpeed,         \* Sandbox::waterSpeed
    waterMaxSteps,      \* Sandbox::waterMaxSteps
    minStepSize,        \* minimum step size forced on the water table
    request,            \* local variable request of Sandbox::display
    totalTimeStep,      \* local variable totalTimeStep of Sandbox::display
    numSteps,           \* local variable numSteps of Sandbox::display
    \* history of the current update block of Sandbox::display
    budget,             \* totalTimeStep as computed before the loop
    executed,           \* sum of the time steps returned by runSimulationStep
    bathymetryUpdated,  \* updateBathymetry has run in this cycle
    loopDone,           \* the stepping loop has been left in this cycle
    copied,             \* grids read back into the request's buffers so far
    cycleTakes,         \* calls of getRequest in this cycle
    takePhase,          \* where in the cycle getRequest was called
    invoked,            \* invocations of the callback in this cycle
    \* WaterTable2: the grids, as the versions of their contents
    bathymetryVersion,  \* version of the depth image in the bathymetry grid
    gridVersion,        \* changes of the water and snow grids in this cycle
    numContributions,   \* invocations of Sandbox::addWater in this cycle
    atStart,            \* history: the three above when the update block began
    \* history of the channel
    numGranted,         \* per requester: its active requests accepted by requestGrids
    numTaken,           \* active requests returned by getRequest
    numCompleted,       \* per requester: invocations of its callback
    \* Threads::TripleBuffer<Kinect::FrameBuffer> filteredFrames
    buffer,             \* the three slots; a frame is the pair of its two halves
    writeSlot,          \* slot the producer copies into
    readySlot,          \* slot holding the most recent complete frame
    lockedSlot,         \* slot locked by the consumer
    \* frame filter thread inside Sandbox::receiveFilteredFrame
    ppc,                \* position of the producer
    posted,             \* version of the frame being / last posted
    updateRequested,    \* Vrui::requestUpdate() is pending
    \* depth image renderer
    firstHalf,          \* half of the locked frame read so far by setDepthImage
    depthImage,         \* the frame the depth image renderer holds
    numObserved,        \* history: calls of setDepthImage
    \* FrameFilter, for one pixel of the depth frame
    numAveragingSlots,  \* local numAveragingSlots of Sandbox::Sandbox
    minNumSamples,      \* local minNumSamples of Sandbox::Sandbox
    maxVariance,        \* local maxVariance of Sandbox::Sandbox
    hysteresis,         \* local hysteresis of Sandbox::Sandbox
    averagingBuffer,    \* the last numAveragingSlots samples of the pixel
    published,          \* the pixel's value in the output frame: <<sum, count>>
    everStable,         \* history: the pixel has been stable at some time
    numTicks,           \* history: raw frames received
    \* the control pipe
    pipe,               \* the lines waiting in the control pipe
    commandBuffer,      \* local commandBuffer of Sandbox::frame, as last read
    rainStrength,       \* Sandbox::rainStrength
    numReported,        \* history: messages written to std::cerr
    \* WaterTable2: the grids cell by cell, and the render functions
    elevation,          \* bathymetry grid: the elevation of each cell
    snowLine,           \* WaterTable2::snowLine
    waterGrid,          \* depth of water deposited on each cell
    snowGrid,           \* depth of snow deposited on each cell
    extractedHands,     \* cells under the hands in the locked hand list
    renderFunctionList, \* the registered render functions, in order
    invocations,        \* history: render functions invoked in this cycle
    \* a completion callback that calls requestGrids
    callbackResult,     \* return value of the last such call: "none", "granted", "refused"
    \* pausing the topography
    pauseUpdates,       \* Sandbox::pauseUpdates
    pauseUpdatesToggle, \* state of the main menu's toggle button
    numRawFrames,       \* history: calls of rawDepthFrameDispatcher
    numHandFrames,      \* history: raw frames passed to the hand extractor
    numPresses,         \* history: presses of the pause button
    numUpdates          \* history: update blocks begun at this application time

chanVars == <<currentRequest, mutex>>
reqVars == <<rpc, rargs, rresult, rsubmits, rEmptyAtCall, rTaken, lastGrant>>
confVars == <<controlPipeOpen, waterTable, minStepSize>>
paramVars == <<waterSpeed, waterMaxSteps>>
timeVars == <<appTime, frameTime>>
loopVars == <<totalTimeStep, numSteps, budget, executed>>
gridVars == <<bathymetryVersion, gridVersion, numContributions, atStart>>
cycleVars == <<bathymetryUpdated, loopDone, copied, cycleTakes, takePhase, invoked>>
countVars == <<numGranted, numTaken, numCompleted>>
bufVars == <<buffer, writeSlot, readySlot, lockedSlot>>
prodVars == <<ppc, posted, updateRequested>>
imageVars == <<firstHalf, depthImage, numObserved>>
filterConfVars == <<numAveragingSlots, minNumSamples, maxVariance, hysteresis>>
filterVars == <<averagingBuffer, published, everStable, numTicks>>
pipeVars == <<pipe, commandBuffer, rainStrength, numReported>>
snowVars == <<elevation, snowLine, waterGrid, snowGrid, extractedHands>>
registryVars == <<renderFunctionList, invocations>>
callbackVars == <<callbackResult>>
displayVars == <<numUpdates>>
pauseVars == <<pauseUpdates, pauseUpdatesToggle, numRawFrames, numHandFrames, numPresses>>
vars == <<chanVars, reqVars, confVars, callbackVars, displayVars, pauseVars, filterConfVars, filterVars, pipeVars, snowVars, registryVars, gridVars, paramVars, timeVars, loopVars, cycleVars,
          countVars, mpc, waterTableTime, request, bufVars, prodVars, imageVars>>

(***************************************************************************)
(* Sandbox::GridRequest::Request                                           *)
(***************************************************************************)
Request(b, w, s, cb, data) ==
    [bathymetryBuffer |-> b, waterLevelBuffer |-> w, snowHeightBuffer |-> s,
     callback |-> cb, callbackData |-> data]

\* Request::Request(void): creates an inactive request
InactiveRequest == Request(0, 0, 0, 0, 0)

\* Request::isActive
isActive(r) == r.callback # 0

\* The grids a request asks for: those with a non-null buffer
Requested(r) ==
    {g \in {"bathymetry", "waterLevel", "snowHeight"} :
        \/ g = "bathymetry" /\ r.bathymetryBuffer # 0
        \/ g = "waterLevel" /\ r.waterLevelBuffer # 0
        \/ g = "snowHeight" /\ r.snowHeightBuffer # 0}

\* Address of the buffers and callback a requester passes
Addr(t) == IF t = "r1" THEN 1 ELSE 2

\* The requester whose callback is at address cb
Owner(cb) == CHOOSE t \in Requesters : Addr(t) = cb

\* Sum of a per-requester counter
Total(f) == f["r1"] + f["r2"]

\* The argument lists a requester passes to requestGrids: all three buffers
\* or the water level buffer alone with its callback, or all three buffers
\* with a null callback, and its callback data
RequestArgs(t) ==
    {Request(Addr(t), Addr(t), Addr(t), cb, Addr(t)) : cb \in {0, Addr(t)}}
        \cup {Request(0, Addr(t), 0, Addr(t), Addr(t))}

(***************************************************************************)
(* Threads::Mutex::Lock: the constructor blocks until the mutex is free.   *)
(***************************************************************************)
LockNoWait(t) ==
    mutex' = t

Lock(t) ==
    /\ mutex = "unlocked"
    /\ mutex' = t

Unlock ==
    mutex' = "unlocked"

(***************************************************************************)
(* Sandbox::GridRequest::requestGrids, called by requester thread t with   *)
(* the argument list a.  The call is issued, waits for the mutex, tests    *)
(* currentRequest.callback, and either stores its arguments and returns    *)
(* true or returns false; the lock is released on return.                  *)
(***************************************************************************)
requestGridsCall(t, a) ==
    /\ rpc[t] = "idle"
    /\ rsubmits < MaxSubmits
    /\ rpc' = [rpc EXCEPT ![t] = "lock"]
    /\ rargs' = [rargs EXCEPT ![t] = a]
    /\ rresult' = [rresult EXCEPT ![t] = "none"]
    /\ rsubmits' = rsubmits + 1
    /\ rEmptyAtCall' = [rEmptyAtCall EXCEPT ![t] = ~isActive(currentRequest)]
    /\ rTaken' = [rTaken EXCEPT ![t] = FALSE]
    /\ UNCHANGED <<chanVars, lastGrant, confVars, callbackVars, displayVars, pauseVars, filterConfVars, filterVars, pipeVars, snowVars, registryVars, gridVars, paramVars, timeVars, loopVars, cycleVars,
                   countVars, mpc, waterTableTime, request, bufVars, prodVars, imageVars>>

requestGridsLock(t) ==
    /\ rpc[t] = "lock"
    /\ Lock(t)
    /\ rpc' = [rpc EXCEPT ![t] = "test"]
    /\ UNCHANGED <<currentRequest, rargs, rresult, rsubmits, rEmptyAtCall, rTaken,
                   lastGrant, confVars, callbackVars, displayVars, pauseVars, filterConfVars, filterVars, pipeVars, snowVars, registryVars, gridVars, paramVars, timeVars, loopVars, cycleVars,
                   countVars, mpc, waterTableTime, request, bufVars, prodVars,
                   imageVars>>

requestGridsRefuseOverwrite(t) ==
    /\ rpc[t] = "test"
    /\ currentRequest.callback # 0
    /\ currentRequest' = rargs[t]
    /\ rresult' = [rresult EXCEPT ![t] = "refused"]
    /\ rpc' = [rpc EXCEPT ![t] = "idle"]
    /\ Unlock
    /\ lastGrant' = <<>>
    /\ UNCHANGED <<rargs, rsubmits, rEmptyAtCall, rTaken,
                   confVars, callbackVars, displayVars, pauseVars, filterConfVars, filterVars, pipeVars, snowVars, registryVars, gridVars, paramVars, timeVars, loopVars, cycleVars, countVars,
                   mpc, waterTableTime, request, bufVars, prodVars, imageVars>>

requestGridsRefuse(t) ==
    /\ rpc[t] = "test"
    /\ currentRequest.callback # 0
    /\ rresult' = [rresult EXCEPT ![t] = "refused"]
    /\ rpc' = [rpc EXCEPT ![t] = "idle"]
    /\ Unlock
    /\ lastGrant' = <<>>
    /\ UNCHANGED <<currentRequest, rargs, rsubmits, rEmptyAtCall, rTaken,
                   confVars, callbackVars, displayVars, pauseVars, filterConfVars, filterVars, pipeVars, snowVars, registryVars, gridVars, paramVars, timeVars, loopVars, cycleVars, countVars,
                   mpc, waterTableTime, request, bufVars, prodVars, imageVars>>

requestGridsTestAlways(t) ==
    /\ rpc[t] = "test"
    /\ rpc' = [rpc EXCEPT ![t] = "store"]
    /\ UNCHANGED <<chanVars, rargs, rresult, rsubmits, rEmptyAtCall, rTaken, lastGrant,
                   confVars, callbackVars, displayVars, pauseVars, filterConfVars, filterVars, pipeVars, snowVars, registryVars, gridVars, paramVars, timeVars, loopVars, cycleVars, countVars,
                   mpc, waterTableTime, request, bufVars, prodVars, imageVars>>

requestGridsTest(t) ==
    /\ rpc[t] = "test"
    /\ currentRequest.callback = 0
    /\ rpc' = [rpc EXCEPT ![t] = "store"]
    /\ UNCHANGED <<chanVars, rargs, rresult, rsubmits, rEmptyAtCall, rTaken, lastGrant,
                   confVars, callbackVars, displayVars, pauseVars, filterConfVars, filterVars, pipeVars, snowVars, registryVars, gridVars, paramVars, timeVars, loopVars, cycleVars, countVars,
                   mpc, waterTableTime, request, bufVars, prodVars, imageVars>>

requestGridsStore(t) ==
    /\ rpc[t] = "store"
    /\ currentRequest' = rargs[t]
    /\ rresult' = [rresult EXCEPT ![t] = "granted"]
    /\ rpc' = [rpc EXCEPT ![t] = "idle"]
    /\ Unlock
    /\ lastGrant' = <<rargs[t]>>
    /\ numGranted' = IF isActive(rargs[t]) THEN [numGranted EXCEPT ![t] = @ + 1]
                                         ELSE numGranted
    /\ UNCHANGED <<rargs, rsubmits, rEmptyAtCall, rTaken, confVars, callbackVars, displayVars, pauseVars, filterConfVars, filterVars, pipeVars, snowVars, registryVars, gridVars, paramVars,
                   timeVars, loopVars, cycleVars, numTaken, numCompleted,
                   mpc, waterTableTime, request, bufVars, prodVars, imageVars>>

(***************************************************************************)
(* Vrui main loop: each iteration advances the application time, calls     *)
(* Sandbox::frame and then Sandbox::display, which may be called more than *)
(* once for the same application time.                                     *)
(***************************************************************************)
VruiFrame(dt) ==
    /\ mpc = "vrui"
    /\ appTime < MaxCycles
    /\ appTime' = appTime + 1
    /\ frameTime' = dt
    /\ updateRequested' = FALSE
    /\ mpc' = "frame"
    /\ numUpdates' = 0
    /\ UNCHANGED <<chanVars, reqVars, confVars, callbackVars, pauseVars, filterConfVars, filterVars, pipeVars, snowVars, registryVars, gridVars, paramVars, loopVars, cycleVars,
                   countVars, waterTableTime, request, bufVars, ppc, posted,
                   imageVars>>

VruiRedisplay ==
    /\ mpc = "vrui"
    /\ appTime > 0
    /\ mpc' = "display"
    /\ UNCHANGED <<chanVars, reqVars, confVars, callbackVars, displayVars, pauseVars, filterConfVars, filterVars, pipeVars, snowVars, registryVars, gridVars, paramVars, timeVars, loopVars,
                   cycleVars, countVars, waterTableTime, request, bufVars, prodVars, imageVars>>

(***************************************************************************)
(* Threads::TripleBuffer: three slots in the roles write, ready and        *)
(* locked.  A frame is the pair of its two halves, each half carrying the  *)
(* version of the frame it was copied from, so that a frame whose halves   *)
(* differ is a partially written one.                                      *)
(***************************************************************************)
Frame(v) == <<v, v>>

Version(f) == f[1]

IsComplete(f) == f[1] = f[2]

\* postNewValue, first part: the copy of the new value into the write slot,
\* one half at a time
copyHalf(h, v) ==
    buffer' = [buffer EXCEPT ![writeSlot][h] = v]

\* postNewValue, second part: the write slot and the ready slot change roles
\* in one atomic step
swapWriteReady ==
    /\ writeSlot' = readySlot
    /\ readySlot' = writeSlot

\* lockNewValue is granted if the ready slot holds a frame newer than the
\* locked one
hasNewValue ==
    Version(buffer[readySlot]) > Version(buffer[lockedSlot])

\* lockNewValue: the ready slot and the locked slot change roles in one
\* atomic step
swapReadyLocked ==
    /\ lockedSlot' = readySlot
    /\ readySlot' = lockedSlot

(***************************************************************************)
(* Sandbox::receiveFilteredFrame, called in the frame filter's thread with *)
(* each new filtered frame: filteredFrames.postNewValue(frameBuffer), then *)
(* Vrui::requestUpdate().                                                  *)
(***************************************************************************)
receiveFilteredFrame ==
    /\ ppc = "idle"
    /\ posted < MaxFrames
    /\ posted' = posted + 1
    /\ ppc' = "copy1"
    /\ UNCHANGED <<chanVars, reqVars, confVars, callbackVars, displayVars, pauseVars, filterConfVars, filterVars, pipeVars, snowVars, registryVars, gridVars, paramVars, timeVars, loopVars,
                   cycleVars, countVars, mpc, waterTableTime, request, bufVars,
                   updateRequested, imageVars>>

postCopyFirst ==
    /\ ppc = "copy1"
    /\ copyHalf(1, posted)
    /\ ppc' = "copy2"
    /\ UNCHANGED <<chanVars, reqVars, confVars, callbackVars, displayVars, pauseVars, filterConfVars, filterVars, pipeVars, snowVars, registryVars, gridVars, paramVars, timeVars, loopVars,
                   cycleVars, countVars, mpc, waterTableTime, request, writeSlot,
                   readySlot, lockedSlot, posted, updateRequested, imageVars>>

postCopySecond ==
    /\ ppc = "copy2"
    /\ copyHalf(2, posted)
    /\ ppc' = "swap"
    /\ UNCHANGED <<chanVars, reqVars, confVars, callbackVars, displayVars, pauseVars, filterConfVars, filterVars, pipeVars, snowVars, registryVars, gridVars, paramVars, timeVars, loopVars,
                   cycleVars, countVars, mpc, waterTableTime, request, writeSlot,
                   readySlot, lockedSlot, posted, updateRequested, imageVars>>

postNewValue ==
    /\ ppc = "swap"
    /\ swapWriteReady
    /\ ppc' = "requestUpdate"
    /\ UNCHANGED <<chanVars, reqVars, confVars, callbackVars, displayVars, pauseVars, filterConfVars, filterVars, pipeVars, snowVars, registryVars, gridVars, paramVars, timeVars, loopVars,
                   cycleVars, countVars, mpc, waterTableTime, request, buffer,
                   lockedSlot, posted, updateRequested, imageVars>>

requestUpdateNone ==
    /\ ppc = "requestUpdate"
    /\ updateRequested' = updateRequested
    /\ ppc' = "idle"
    /\ UNCHANGED <<chanVars, reqVars, confVars, callbackVars, displayVars, pauseVars, filterConfVars, filterVars, pipeVars, snowVars, registryVars, gridVars, paramVars, timeVars, loopVars,
                   cycleVars, countVars, mpc, waterTableTime, request, bufVars,
                   posted, imageVars>>

requestUpdate ==
    /\ ppc = "requestUpdate"
    /\ updateRequested' = TRUE
    /\ ppc' = "idle"
    /\ UNCHANGED <<chanVars, reqVars, confVars, callbackVars, displayVars, pauseVars, filterConfVars, filterVars, pipeVars, snowVars, registryVars, gridVars, paramVars, timeVars, loopVars,
                   cycleVars, countVars, mpc, waterTableTime, request, bufVars,
                   posted, imageVars>>

(***************************************************************************)
(* Sandbox::frame: if(filteredFrames.lockNewValue())                       *)
(*   depthImageRenderer->setDepthImage(filteredFrames.getLockedValue());   *)
(***************************************************************************)
\* getLockedValue: the consumer reads the locked slot
getLockedValue == lockedSlot

\* The slot whose frame Sandbox::frame hands to the depth image renderer
frameDepthImageSlotReady == readySlot

frameDepthImageSlotWrite == writeSlot

frameDepthImageSlot == getLockedValue

frameLockNewValueUnchecked ==
    /\ mpc = "frame"
    /\ IF hasNewValue
          THEN swapReadyLocked
          ELSE UNCHANGED <<readySlot, lockedSlot>>
    /\ mpc' = "setDepthImage"
    /\ UNCHANGED <<chanVars, reqVars, confVars, callbackVars, displayVars, pauseVars, filterConfVars, filterVars, pipeVars, snowVars, registryVars, gridVars, paramVars, timeVars, loopVars,
                   cycleVars, countVars, waterTableTime, request, buffer, writeSlot,
                   prodVars, imageVars>>

frameLockNewValue ==
    /\ mpc = "frame"
    /\ IF hasNewValue
          THEN /\ swapReadyLocked
               /\ mpc' = "setDepthImage"
          ELSE /\ UNCHANGED <<readySlot, lockedSlot>>
               /\ mpc' = "controlPipe"
    /\ UNCHANGED <<chanVars, reqVars, confVars, callbackVars, displayVars, pauseVars, filterConfVars, filterVars, pipeVars, snowVars, registryVars, gridVars, paramVars, timeVars, loopVars,
                   cycleVars, countVars, waterTableTime, request, buffer, writeSlot,
                   prodVars, imageVars>>

\* setDepthImage copies the frame it is given, one half at a time
frameSetDepthImageFirst ==
    /\ mpc = "setDepthImage"
    /\ firstHalf' = buffer[frameDepthImageSlot][1]
    /\ mpc' = "setDepthImage2"
    /\ UNCHANGED <<chanVars, reqVars, confVars, callbackVars, displayVars, pauseVars, filterConfVars, filterVars, pipeVars, snowVars, registryVars, gridVars, paramVars, timeVars, loopVars,
                   cycleVars, countVars, waterTableTime, request, bufVars, prodVars,
                   depthImage, numObserved>>

frameSetDepthImageSecond ==
    /\ mpc = "setDepthImage2"
    /\ depthImage' = <<firstHalf, buffer[frameDepthImageSlot][2]>>
    /\ numObserved' = numObserved + 1
    /\ mpc' = "controlPipe"
    /\ UNCHANGED <<chanVars, reqVars, confVars, callbackVars, displayVars, pauseVars, filterConfVars, filterVars, pipeVars, snowVars, registryVars, gridVars, paramVars, timeVars, loopVars,
                   cycleVars, countVars, waterTableTime, request, bufVars, prodVars,
                   firstHalf>>

(***************************************************************************)
(* Sandbox::frame: the control pipe.  A chunk read from the pipe holds no  *)
(* command of the model, a waterSpeed command or a waterMaxSteps command;  *)
(* both store the parsed number as it is.                                  *)
(***************************************************************************)
frameNoCommand ==
    /\ mpc = "controlPipe"
    /\ mpc' = "display"
    /\ UNCHANGED <<chanVars, reqVars, confVars, callbackVars, displayVars, pauseVars, filterConfVars, filterVars, pipeVars, snowVars, registryVars, gridVars, paramVars, timeVars, loopVars,
                   cycleVars, countVars, waterTableTime, request, bufVars, prodVars, imageVars>>

\* Sandbox::frame locks the most recent extracted hand list; hands covers
\* the cells under the hands.  No command waits on the control pipe.
frameLockNewExtractedHands(hands) ==
    /\ mpc = "controlPipe"
    /\ waterTable
    /\ extractedHands' = hands
    /\ mpc' = "display"
    /\ UNCHANGED <<chanVars, reqVars, confVars, callbackVars, displayVars, pauseVars, filterConfVars, filterVars,
                   pipeVars, elevation, snowLine, waterGrid, snowGrid,
                   registryVars, gridVars, paramVars, timeVars, loopVars,
                   cycleVars, countVars, waterTableTime, request, bufVars,
                   prodVars, imageVars>>

\* Sandbox::snowLineSliderCallback: waterTable->setSnowLine(cbData->value),
\* the value being one of the slider's range, the elevation range
snowLineSliderCallback(value) ==
    /\ mpc = "vrui"
    /\ waterTable
    /\ snowLine' = value
    /\ UNCHANGED <<chanVars, reqVars, confVars, callbackVars, displayVars, pauseVars, filterConfVars, filterVars,
                   pipeVars, elevation, waterGrid, snowGrid, extractedHands,
                   registryVars, gridVars, paramVars, timeVars, loopVars,
                   cycleVars, countVars, mpc, waterTableTime, request,
                   bufVars, prodVars, imageVars>>

frameWaterSpeed(v) ==
    /\ mpc = "controlPipe"
    /\ controlPipeOpen
    /\ waterSpeed' = v
    /\ mpc' = "display"
    /\ UNCHANGED <<chanVars, reqVars, confVars, callbackVars, displayVars, pauseVars, filterConfVars, filterVars, pipeVars, snowVars, registryVars, gridVars, waterMaxSteps, timeVars, loopVars,
                   cycleVars, countVars, waterTableTime, request, bufVars, prodVars, imageVars>>

frameWaterMaxSteps(n) ==
    /\ mpc = "controlPipe"
    /\ controlPipeOpen
    /\ waterMaxSteps' = n
    /\ mpc' = "display"
    /\ UNCHANGED <<chanVars, reqVars, confVars, callbackVars, displayVars, pauseVars, filterConfVars, filterVars, pipeVars, snowVars, registryVars, gridVars, waterSpeed, timeVars, loopVars,
                   cycleVars, countVars, waterTableTime, request, bufVars, prodVars, imageVars>>

(***************************************************************************)
(* WaterTable2::runSimulationStep after setMaxStepSize(maxStepSize): the   *)
(* step size cfl that the stability constraint computes is raised to the   *)
(* forced minimum step size and then limited to the maximum step size.     *)
(***************************************************************************)
runSimulationStepNoMinimum(maxStepSize, cfl) ==
    Min(cfl, maxStepSize)

runSimulationStep(maxStepSize, cfl) ==
    Min(Max(cfl, minStepSize), maxStepSize)

(***************************************************************************)
(* Sandbox::display: the water simulation update block.                    *)
(***************************************************************************)
\* The contents of the grids
GridSnapshot ==
    [bathymetry |-> bathymetryVersion, grid |-> gridVersion,
     contributions |-> numContributions]

displayUpdateNoGetRequest ==
    /\ mpc = "display"
    /\ waterTable /\ waterTableTime # appTime
    /\ mpc' = "updateBathymetry"
    /\ atStart' = GridSnapshot
    /\ numUpdates' = numUpdates + 1
    /\ UNCHANGED <<chanVars, reqVars, confVars, callbackVars, pauseVars, filterConfVars, filterVars, pipeVars, snowVars, registryVars, bathymetryVersion, gridVersion,
                   numContributions, paramVars, timeVars, loopVars,
                   cycleVars, countVars, waterTableTime, request, bufVars, prodVars,
                   imageVars>>

\* if(waterTable!=0&&dataItem->waterTableTime!=Vrui::getApplicationTime())
displayUpdate ==
    /\ mpc = "display"
    /\ waterTable /\ waterTableTime # appTime
    /\ mpc' = "getRequest"
    /\ atStart' = GridSnapshot
    /\ numUpdates' = numUpdates + 1
    /\ UNCHANGED <<chanVars, reqVars, confVars, callbackVars, pauseVars, filterConfVars, filterVars, pipeVars, snowVars, registryVars, bathymetryVersion, gridVersion,
                   numContributions, paramVars, timeVars, loopVars,
                   cycleVars, countVars, waterTableTime, request, bufVars, prodVars,
                   imageVars>>

displaySkip ==
    /\ mpc = "display"
    /\ ~(waterTable /\ waterTableTime # appTime)
    /\ mpc' = "vrui"
    /\ UNCHANGED <<chanVars, reqVars, confVars, callbackVars, displayVars, pauseVars, filterConfVars, filterVars, pipeVars, snowVars, registryVars, gridVars, paramVars, timeVars, loopVars,
                   cycleVars, countVars, waterTableTime, request, bufVars, prodVars, imageVars>>

\* Where in the update block the foreground thread is when it calls getRequest
CyclePhase ==
    IF loopDone THEN "afterLoop"
    ELSE IF bathymetryUpdated THEN "afterBathymetry"
    ELSE "beforeBathymetry"

\* GridRequest::getRequest: Threads::Mutex::Lock lock(mutex)
getRequestLock ==
    /\ mpc = "getRequest"
    /\ Lock("main")
    /\ mpc' = "getRequestLocked"
    /\ UNCHANGED <<currentRequest, reqVars, confVars, callbackVars, displayVars, pauseVars, filterConfVars, filterVars, pipeVars, snowVars, registryVars, gridVars, paramVars, timeVars, loopVars,
                   cycleVars, countVars, waterTableTime, request, bufVars, prodVars, imageVars>>

getRequestClearFirst ==
    /\ mpc = "getRequestLocked"
    /\ currentRequest' = [currentRequest EXCEPT !.callback = 0]
    /\ request' = currentRequest'
    /\ Unlock
    /\ mpc' = "updateBathymetry"
    /\ cycleTakes' = cycleTakes + 1
    /\ takePhase' = CyclePhase
    /\ rTaken' = [t \in Requesters |-> TRUE]
    /\ lastGrant' = <<>>
    /\ numTaken' = IF isActive(currentRequest) THEN numTaken + 1 ELSE numTaken
    /\ UNCHANGED <<rpc, rargs, rresult, rsubmits, rEmptyAtCall, confVars, callbackVars, displayVars, pauseVars, filterConfVars, filterVars, pipeVars, snowVars, registryVars, gridVars, paramVars,
                   timeVars, loopVars, bathymetryUpdated, loopDone, copied, invoked,
                   numGranted, numCompleted, waterTableTime, bufVars, prodVars,
                   imageVars>>

getRequestKeepLock ==
    /\ mpc = "getRequestLocked"
    /\ request' = currentRequest
    /\ currentRequest' = [currentRequest EXCEPT !.callback = 0]
    /\ mutex' = mutex
    /\ mpc' = "updateBathymetry"
    /\ cycleTakes' = cycleTakes + 1
    /\ takePhase' = CyclePhase
    /\ rTaken' = [t \in Requesters |-> TRUE]
    /\ lastGrant' = <<>>
    /\ numTaken' = IF isActive(currentRequest) THEN numTaken + 1 ELSE numTaken
    /\ UNCHANGED <<rpc, rargs, rresult, rsubmits, rEmptyAtCall, confVars, callbackVars, displayVars, pauseVars, filterConfVars, filterVars, pipeVars, snowVars, registryVars, gridVars, paramVars,
                   timeVars, loopVars, bathymetryUpdated, loopDone, copied, invoked,
                   numGranted, numCompleted, waterTableTime, bufVars, prodVars,
                   imageVars>>

\* GridRequest::getRequest: copies the current request, clears its callback
\* and releases the lock on return
getRequest ==
    /\ mpc = "getRequestLocked"
    /\ request' = currentRequest
    /\ currentRequest' = [currentRequest EXCEPT !.callback = 0]
    /\ Unlock
    /\ mpc' = "updateBathymetry"
    /\ cycleTakes' = cycleTakes + 1
    /\ takePhase' = CyclePhase
    /\ rTaken' = [t \in Requesters |-> TRUE]
    /\ lastGrant' = <<>>
    /\ numTaken' = IF isActive(currentRequest) THEN numTaken + 1 ELSE numTaken
    /\ UNCHANGED <<rpc, rargs, rresult, rsubmits, rEmptyAtCall, confVars, callbackVars, displayVars, pauseVars, filterConfVars, filterVars, pipeVars, snowVars, registryVars, gridVars, paramVars,
                   timeVars, loopVars, bathymetryUpdated, loopDone, copied, invoked,
                   numGranted, numCompleted, waterTableTime, bufVars, prodVars,
                   imageVars>>

\* WaterTable2::updateBathymetry: the bathymetry grid takes the current depth
\* image of the depth image renderer if that is a newer one
updateBathymetry ==
    bathymetryVersion' = IF Version(depthImage) # bathymetryVersion
                            THEN Version(depthImage) ELSE bathymetryVersion

\* updateBathymetry, the read-back of the bathymetry grid if requested, the
\* property grid update, and the initialisation of the stepping loop
displayUpdateBathymetry ==
    /\ mpc = "updateBathymetry"
    /\ updateBathymetry
    /\ bathymetryUpdated' = TRUE
    /\ copied' = IF isActive(request) /\ request.bathymetryBuffer # 0
                    THEN copied \cup {"bathymetry"} ELSE copied
    /\ totalTimeStep' = frameTime * waterSpeed
    /\ budget' = frameTime * waterSpeed
    /\ numSteps' = 0
    /\ executed' = 0
    /\ mpc' = "loop"
    /\ UNCHANGED <<chanVars, reqVars, confVars, callbackVars, displayVars, pauseVars, filterConfVars, filterVars, pipeVars, snowVars, registryVars, gridVersion, numContributions, atStart,
                   paramVars, timeVars, loopDone,
                   cycleTakes, takePhase, invoked, countVars, waterTableTime, request, bufVars, prodVars, imageVars>>

\* while(numSteps<waterMaxSteps&&totalTimeStep>1.0e-8f)
LoopConditionNoCap ==
    totalTimeStep > Epsilon

LoopConditionNoEpsilon ==
    numSteps < waterMaxSteps

LoopCondition ==
    numSteps < waterMaxSteps /\ totalTimeStep > Epsilon

\* The cells of the grids
Cells == {1, 2}

\* The render functions: Sandbox::addWater and one of another collaborator
RenderFunctions == {"addWater", "other"}

\* How often f is registered
Registered(f) ==
    Cardinality({i \in DOMAIN renderFunctionList : renderFunctionList[i] = f})

addWaterEverywhere(c) ==
    rainStrength \div waterSpeed

\* Sandbox::addWater: if the locked hand list is not empty, a rain disk of
\* strength rainStrength/waterSpeed is rendered for every hand; the depth
\* this adds to cell c
addWater(c) ==
    IF waterTable /\ c \in extractedHands
        THEN rainStrength \div waterSpeed
        ELSE 0

\* The water table deposits the depth a render function adds to a cell as
\* snow if the cell's elevation is above the snow line, else as water
depositWater(c, depth) ==
    IF elevation[c] > snowLine THEN waterGrid[c] ELSE waterGrid[c] + depth

depositSnow(c, depth) ==
    IF elevation[c] > snowLine THEN snowGrid[c] + depth ELSE snowGrid[c]

\* WaterTable2::runSimulationStep: every registered render function is
\* called once in each step, in the order of registration; Sandbox
\* registers addWater when it creates the water table
renderFunctions ==
    /\ numContributions' = numContributions + Registered("addWater")
    /\ invocations' = invocations \o renderFunctionList
    /\ waterGrid' = [c \in Cells |->
                        depositWater(c, Registered("addWater") * addWater(c))]
    /\ snowGrid' = [c \in Cells |->
                       depositSnow(c, Registered("addWater") * addWater(c))]

\* WaterTable2::addRenderFunction, WaterTable2::removeRenderFunction:
\* collaborators add and remove render functions between frames
addRenderFunction(f) ==
    /\ mpc = "vrui"
    /\ waterTable
    /\ Registered(f) = 0
    /\ renderFunctionList' = Append(renderFunctionList, f)
    /\ UNCHANGED <<chanVars, reqVars, confVars, callbackVars, displayVars, pauseVars, filterConfVars, filterVars,
                   pipeVars, snowVars, invocations, gridVars, paramVars,
                   timeVars, loopVars, cycleVars, countVars, mpc,
                   waterTableTime, request, bufVars, prodVars, imageVars>>

removeRenderFunction(f) ==
    /\ mpc = "vrui"
    /\ waterTable
    /\ Registered(f) > 0
    /\ renderFunctionList' = SelectSeq(renderFunctionList, LAMBDA g : g # f)
    /\ UNCHANGED <<chanVars, reqVars, confVars, callbackVars, displayVars, pauseVars, filterConfVars, filterVars,
                   pipeVars, snowVars, invocations, gridVars, paramVars,
                   timeVars, loopVars, cycleVars, countVars, mpc,
                   waterTableTime, request, bufVars, prodVars, imageVars>>

\* One iteration of the stepping loop; cfl is the step size the stability
\* constraint of the water table computes in this iteration
displayStepNoMaxStepSize(cfl) ==
    /\ mpc = "loop"
    /\ LoopCondition
    /\ LET timeStep == Max(cfl, minStepSize)
       IN  /\ totalTimeStep' = totalTimeStep - timeStep
           /\ executed' = executed + timeStep
    /\ numSteps' = numSteps + 1
    /\ renderFunctions
    /\ gridVersion' = gridVersion + 1
    /\ UNCHANGED <<chanVars, reqVars, confVars, callbackVars, displayVars, pauseVars, filterConfVars, filterVars, pipeVars, elevation, snowLine, extractedHands,
                   renderFunctionList, bathymetryVersion, atStart, paramVars,
                   timeVars, budget, cycleVars, countVars, mpc, waterTableTime,
                   request, bufVars, prodVars, imageVars>>

displayStepNoRenderFunctions(cfl) ==
    /\ mpc = "loop"
    /\ LoopCondition
    /\ LET timeStep == runSimulationStep(totalTimeStep, cfl)
       IN  /\ totalTimeStep' = totalTimeStep - timeStep
           /\ executed' = executed + timeStep
    /\ numSteps' = numSteps + 1
    /\ gridVersion' = gridVersion + 1
    /\ UNCHANGED <<chanVars, reqVars, confVars, callbackVars, displayVars, pauseVars, filterConfVars, filterVars, pipeVars, snowVars,
                   registryVars, numContributions, bathymetryVersion, atStart, paramVars, timeVars, budget,
                   cycleVars, countVars, mpc, waterTableTime, request, bufVars, prodVars, imageVars>>

displayStepUpdateBathymetry(cfl) ==
    /\ mpc = "loop"
    /\ LoopCondition
    /\ LET timeStep == runSimulationStep(totalTimeStep, cfl)
       IN  /\ totalTimeStep' = totalTimeStep - timeStep
           /\ executed' = executed + timeStep
    /\ numSteps' = numSteps + 1
    /\ renderFunctions
    /\ gridVersion' = gridVersion + 1
    /\ bathymetryVersion' = Version(buffer[readySlot])
    /\ UNCHANGED <<chanVars, reqVars, confVars, callbackVars, displayVars, pauseVars, filterConfVars, filterVars, pipeVars, elevation, snowLine, extractedHands,
                   renderFunctionList, atStart, paramVars, timeVars, budget,
                   cycleVars, countVars, mpc, waterTableTime, request, bufVars, prodVars, imageVars>>

displayStep(cfl) ==
    /\ mpc = "loop"
    /\ LoopCondition
    /\ LET timeStep == runSimulationStep(totalTimeStep, cfl)
       IN  /\ totalTimeStep' = totalTimeStep - timeStep
           /\ executed' = executed + timeStep
    /\ numSteps' = numSteps + 1
    /\ renderFunctions
    /\ gridVersion' = gridVersion + 1
    /\ UNCHANGED <<chanVars, reqVars, confVars, callbackVars, displayVars, pauseVars, filterConfVars, filterVars, pipeVars, elevation, snowLine, extractedHands,
                   renderFunctionList, bathymetryVersion, atStart, paramVars, timeVars, budget,
                   cycleVars, countVars, mpc, waterTableTime, request, bufVars, prodVars, imageVars>>

displayLoopExit ==
    /\ mpc = "loop"
    /\ ~LoopCondition
    /\ loopDone' = TRUE
    /\ mpc' = "readBack"
    /\ UNCHANGED <<chanVars, reqVars, confVars, callbackVars, displayVars, pauseVars, filterConfVars, filterVars, pipeVars, snowVars, registryVars, gridVars, paramVars, timeVars, loopVars,
                   bathymetryUpdated, copied, cycleTakes, takePhase, invoked,
                   countVars, waterTableTime, request, bufVars, prodVars, imageVars>>

displayReadBackNoSnow ==
    /\ mpc = "readBack"
    /\ copied' = copied
                 \cup (IF isActive(request) /\ request.waterLevelBuffer # 0
                          THEN {"waterLevel"} ELSE {})
    /\ mpc' = "complete"
    /\ UNCHANGED <<chanVars, reqVars, confVars, callbackVars, displayVars, pauseVars, filterConfVars, filterVars, pipeVars, snowVars, registryVars, gridVars, paramVars, timeVars, loopVars,
                   bathymetryUpdated, loopDone, cycleTakes, takePhase, invoked,
                   countVars, waterTableTime, request, bufVars, prodVars, imageVars>>

\* The read-back of the water level grid and of the snow height grid
displayReadBack ==
    /\ mpc = "readBack"
    /\ copied' = copied
                 \cup (IF isActive(request) /\ request.waterLevelBuffer # 0
                          THEN {"waterLevel"} ELSE {})
                 \cup (IF isActive(request) /\ request.snowHeightBuffer # 0
                          THEN {"snowHeight"} ELSE {})
    /\ mpc' = "complete"
    /\ UNCHANGED <<chanVars, reqVars, confVars, callbackVars, displayVars, pauseVars, filterConfVars, filterVars, pipeVars, snowVars, registryVars, gridVars, paramVars, timeVars, loopVars,
                   bathymetryUpdated, loopDone, cycleTakes, takePhase, invoked,
                   countVars, waterTableTime, request, bufVars, prodVars, imageVars>>

\* if(request.isActive()) request.complete(): the callback runs in the
\* foreground thread and sees the grids copied so far
displayComplete ==
    /\ mpc = "complete"
    /\ IF isActive(request)
          THEN /\ invoked' = Append(invoked, [request |-> request, copied |-> copied])
               /\ numCompleted' = [numCompleted EXCEPT ![Owner(request.callback)] = @ + 1]
          ELSE UNCHANGED <<invoked, numCompleted>>
    /\ mpc' = "mark"
    /\ UNCHANGED <<chanVars, reqVars, confVars, callbackVars, displayVars, pauseVars, filterConfVars, filterVars, pipeVars, snowVars, registryVars, gridVars, paramVars, timeVars, loopVars,
                   bathymetryUpdated, loopDone, copied, cycleTakes, takePhase,
                   numGranted, numTaken, waterTableTime, request, bufVars, prodVars, imageVars>>

\* request.complete() with a callback that asks for the grids again: it
\* calls requestGrids with the arguments of the request it completes
displayCompleteResubmit ==
    /\ mpc = "complete"
    /\ isActive(request)
    /\ invoked' = Append(invoked, [request |-> request, copied |-> copied])
    /\ numCompleted' = [numCompleted EXCEPT ![Owner(request.callback)] = @ + 1]
    /\ mpc' = "callbackLock"
    /\ UNCHANGED <<chanVars, reqVars, confVars, callbackVars, displayVars, pauseVars, filterConfVars, filterVars, pipeVars, snowVars, registryVars, gridVars, paramVars, timeVars, loopVars,
                   bathymetryUpdated, loopDone, copied, cycleTakes, takePhase,
                   numGranted, numTaken, waterTableTime, request, bufVars, prodVars, imageVars>>

\* requestGrids called from the callback, in the foreground thread:
\* Threads::Mutex::Lock lock(mutex)
callbackRequestGridsLock ==
    /\ mpc = "callbackLock"
    /\ Lock("main")
    /\ mpc' = "callbackTest"
    /\ UNCHANGED <<currentRequest, reqVars, confVars, callbackVars, displayVars, pauseVars, filterConfVars, filterVars, pipeVars, snowVars, registryVars, gridVars, paramVars, timeVars, loopVars,
                   cycleVars, countVars, waterTableTime, request, bufVars, prodVars, imageVars>>

\* requestGrids called from the callback: the test of the slot, the store
\* or the refusal, and the release of the lock on return
callbackRequestGrids ==
    /\ mpc = "callbackTest"
    /\ IF currentRequest.callback = 0
          THEN /\ currentRequest' = request
               /\ callbackResult' = "granted"
               /\ lastGrant' = <<request>>
               /\ numGranted' = [numGranted EXCEPT ![Owner(request.callback)] = @ + 1]
          ELSE /\ callbackResult' = "refused"
               /\ lastGrant' = <<>>
               /\ UNCHANGED <<currentRequest, numGranted>>
    /\ Unlock
    /\ mpc' = "mark"
    /\ UNCHANGED <<rpc, rargs, rresult, rsubmits, rEmptyAtCall, rTaken, confVars, pauseVars, displayVars, filterConfVars, filterVars, pipeVars, snowVars, registryVars, gridVars, paramVars, timeVars, loopVars,
                   cycleVars, numTaken, numCompleted, waterTableTime, request, bufVars, prodVars, imageVars>>

displayMarkNoTime ==
    /\ mpc = "mark"
    /\ waterTableTime' = waterTableTime
    /\ mpc' = "vrui"
    /\ request' = InactiveRequest
    /\ totalTimeStep' = 0
    /\ numSteps' = 0
    /\ budget' = 0
    /\ executed' = 0
    /\ bathymetryUpdated' = FALSE
    /\ loopDone' = FALSE
    /\ copied' = {}
    /\ cycleTakes' = 0
    /\ takePhase' = "none"
    /\ invoked' = <<>>
    /\ gridVersion' = 0
    /\ numContributions' = 0
    /\ atStart' = [bathymetry |-> bathymetryVersion, grid |-> 0, contributions |-> 0]
    /\ invocations' = <<>>
    /\ UNCHANGED <<chanVars, reqVars, confVars, callbackVars, displayVars, pauseVars, filterConfVars, filterVars, pipeVars, snowVars, renderFunctionList, bathymetryVersion, paramVars, timeVars, countVars,
                   bufVars, prodVars, imageVars>>

\* dataItem->waterTableTime=Vrui::getApplicationTime(); the locals of the
\* update block go out of scope and the history of the cycle starts afresh;
\* the rest of display renders and changes no state of the model
displayMark ==
    /\ mpc = "mark"
    /\ waterTableTime' = appTime
    /\ mpc' = "vrui"
    /\ request' = InactiveRequest
    /\ totalTimeStep' = 0
    /\ numSteps' = 0
    /\ budget' = 0
    /\ executed' = 0
    /\ bathymetryUpdated' = FALSE
    /\ loopDone' = FALSE
    /\ copied' = {}
    /\ cycleTakes' = 0
    /\ takePhase' = "none"
    /\ invoked' = <<>>
    /\ gridVersion' = 0
    /\ numContributions' = 0
    /\ atStart' = [bathymetry |-> bathymetryVersion, grid |-> 0, contributions |-> 0]
    /\ invocations' = <<>>
    /\ UNCHANGED <<chanVars, reqVars, confVars, callbackVars, displayVars, pauseVars, filterConfVars, filterVars, pipeVars, snowVars, renderFunctionList, bathymetryVersion, paramVars, timeVars, countVars,
                   bufVars, prodVars, imageVars>>

(***************************************************************************)
(* The control pipe.  The text read from the pipe is a sequence of pieces: *)
(* a piece is a blank, an end-of-line, or a run of non-blank characters.   *)
(***************************************************************************)
\* isspace: blanks and the end-of-line
isspace(c) == c \in {" ", "\n"}

\* while(*bPtr!='\0'&&*bPtr!='\n'&&isspace(*bPtr)) ++bPtr;
RECURSIVE skipWhitespace(_, _)
skipWhitespace(text, bPtr) ==
    IF bPtr <= Len(text) /\ text[bPtr] # "\n" /\ isspace(text[bPtr])
    THEN skipWhitespace(text, bPtr + 1)
    ELSE bPtr

\* while(*bPtr!='\0'&&!isspace(*bPtr)) ++bPtr;
RECURSIVE findTokenEnd(_, _)
findTokenEnd(text, bPtr) ==
    IF bPtr <= Len(text) /\ ~isspace(text[bPtr])
    THEN findTokenEnd(text, bPtr + 1)
    ELSE bPtr

\* The token loop of tokenizeLine, entered and left with the whitespace
\* before the next token skipped
RECURSIVE extractTokens(_, _, _)
extractTokens(text, bPtr, result) ==
    IF bPtr <= Len(text) /\ text[bPtr] # "\n"
    THEN LET tokenEnd == findTokenEnd(text, bPtr)
         IN extractTokens(text, skipWhitespace(text, tokenEnd),
                          Append(result, SubSeq(text, bPtr, tokenEnd - 1)))
    ELSE [tokens |-> result, bPtr |-> bPtr]

\* tokenizeLine: the tokens of the line that starts at bPtr, and the start
\* of the next line
tokenizeLine(text, bPtr) ==
    LET line == extractTokens(text, skipWhitespace(text, bPtr), <<>>)
    IN [tokens |-> line.tokens,
        next |-> IF line.bPtr <= Len(text) /\ text[line.bPtr] = "\n"
                     THEN line.bPtr + 1
                     ELSE line.bPtr]

\* strcasecmp sees no difference between these
FoldCase(piece) ==
    CASE piece = "WATERSPEED" -> "waterSpeed"
      [] piece = "RainStrength" -> "rainStrength"
      [] OTHER -> piece

isToken(token, pattern) ==
    /\ Len(token) = 1
    /\ FoldCase(token[1]) = FoldCase(pattern)

\* atof and atoi convert the number the token starts with, and yield zero
\* if it starts with none
atof(token) ==
    CASE token[1] = "-1" -> -1
      [] token[1] = "1" -> 1
      [] token[1] = "2" -> 2
      [] token[1] = "300" -> 300
      [] OTHER -> 0

atoi(token) == atof(token)

\* The value of an int stored in an unsigned int: a negative int wraps
\* around to the top of the unsigned range.  The range is cut to 31 bits,
\* the widest the model's integers hold.
ToUnsigned(n) == IF n < 0 THEN (n + 2147483647) + 1 ELSE n

(***************************************************************************)
(* One command line of Sandbox::frame, on the parameters                   *)
(* p = [waterSpeed, waterMaxSteps, rainStrength, reported].                *)
(***************************************************************************)
frameCommandAnyArguments(tokens, p) ==
    IF isToken(tokens[1], "waterSpeed")
    THEN IF Len(tokens) >= 2
         THEN [p EXCEPT !.waterSpeed = atof(tokens[2])]
         ELSE [p EXCEPT !.reported = @ + 1]
    ELSE IF isToken(tokens[1], "waterMaxSteps")
    THEN IF Len(tokens) = 2
         THEN [p EXCEPT !.waterMaxSteps = ToUnsigned(atoi(tokens[2]))]
         ELSE [p EXCEPT !.reported = @ + 1]
    ELSE IF isToken(tokens[1], "rainStrength")
    THEN IF Len(tokens) = 2
         THEN [p EXCEPT !.rainStrength = atof(tokens[2])]
         ELSE [p EXCEPT !.reported = @ + 1]
    ELSE [p EXCEPT !.reported = @ + 1]

frameCommand(tokens, p) ==
    IF isToken(tokens[1], "waterSpeed")
    THEN IF Len(tokens) = 2
         THEN [p EXCEPT !.waterSpeed = atof(tokens[2])]
         ELSE [p EXCEPT !.reported = @ + 1]
    ELSE IF isToken(tokens[1], "waterMaxSteps")
    THEN IF Len(tokens) = 2
         THEN [p EXCEPT !.waterMaxSteps = ToUnsigned(atoi(tokens[2]))]
         ELSE [p EXCEPT !.reported = @ + 1]
    ELSE IF isToken(tokens[1], "rainStrength")
    THEN IF Len(tokens) = 2
         THEN [p EXCEPT !.rainStrength = atof(tokens[2])]
         ELSE [p EXCEPT !.reported = @ + 1]
    ELSE [p EXCEPT !.reported = @ + 1]

\* while(*cPtr!='\0'): tokenize the line, skip it if it is empty, else
\* carry out its command
RECURSIVE frameCommands(_, _, _)
frameCommands(text, cPtr, p) ==
    IF cPtr > Len(text) THEN p
    ELSE LET line == tokenizeLine(text, cPtr)
         IN frameCommands(text, line.next,
                          IF line.tokens = <<>> THEN p
                          ELSE frameCommand(line.tokens, p))

\* The parameters the control pipe sets
Parameters ==
    [waterSpeed |-> waterSpeed, waterMaxSteps |-> waterMaxSteps,
     rainStrength |-> rainStrength, reported |-> numReported]

\* The text of the lines, each ended by an end-of-line
RECURSIVE Text(_)
Text(lines) ==
    IF lines = <<>> THEN <<>>
    ELSE Head(lines) \o <<"\n">> \o Text(Tail(lines))

\* Sandbox::frame reads a chunk from the control pipe and carries out its
\* commands
frameControlPipe ==
    /\ mpc = "controlPipe"
    /\ controlPipeOpen
    /\ pipe # <<>>
    /\ commandBuffer' = Text(pipe)
    /\ pipe' = <<>>
    /\ LET p == frameCommands(commandBuffer', 1, Parameters)
       IN /\ waterSpeed' = p.waterSpeed
          /\ waterMaxSteps' = p.waterMaxSteps
          /\ rainStrength' = p.rainStrength
          /\ numReported' = p.reported
    /\ mpc' = "display"
    /\ UNCHANGED <<chanVars, reqVars, confVars, callbackVars, displayVars, pauseVars, filterConfVars, filterVars,
                   snowVars, registryVars, gridVars, timeVars, loopVars,
                   cycleVars, countVars, waterTableTime, request, bufVars,
                   prodVars, imageVars>>

(***************************************************************************)
(* The frame filter, for one pixel of the depth frame.  Sandbox::Sandbox   *)
(* creates it with numAveragingSlots averaging slots, hands it the         *)
(* stability parameters and the hysteresis, and registers                  *)
(* receiveFilteredFrame as its output function.  Samples are integers; the *)
(* mean of the averaging buffer is kept as the pair <<sum, count>>.        *)
(***************************************************************************)
\* A sample outside the valid elevation interval
Invalid == -1

\* An output pixel that never received a value
Unpublished == <<0, 0>>

setStableParametersSwapped ==
    [minNumSamples |-> maxVariance, maxVariance |-> minNumSamples]

\* frameFilter->setStableParameters(minNumSamples,maxVariance)
setStableParameters ==
    [minNumSamples |-> minNumSamples, maxVariance |-> maxVariance]

setHysteresisWrongArgument == maxVariance

\* frameFilter->setHysteresis(hysteresis)
setHysteresis == hysteresis

RECURSIVE SumOver(_, _)
SumOver(h, i) ==
    IF i > Len(h) THEN 0
    ELSE (IF h[i] = Invalid THEN 0 ELSE h[i]) + SumOver(h, i + 1)

RECURSIVE SumSquaresOver(_, _)
SumSquaresOver(h, i) ==
    IF i > Len(h) THEN 0
    ELSE (IF h[i] = Invalid THEN 0 ELSE h[i] * h[i]) + SumSquaresOver(h, i + 1)

\* The number of valid samples in the averaging buffer, their sum and the
\* sum of their squares
NumValid(h) == Cardinality({i \in 1..Len(h) : h[i] # Invalid})

Sum(h) == SumOver(h, 1)

SumSquares(h) == SumSquaresOver(h, 1)

\* The variance of the valid samples is at most v:
\* sumSquares/n - (sum/n)^2 <= v, without the divisions
VarianceAtMost(h, v) ==
    NumValid(h) * SumSquares(h) - Sum(h) * Sum(h) <= v * NumValid(h) * NumValid(h)

\* The pixel is stable: enough valid samples of small enough variance
StableUnder(h, n, v) ==
    /\ NumValid(h) > 0
    /\ NumValid(h) >= n
    /\ VarianceAtMost(h, v)

IsStable(h) ==
    StableUnder(h, setStableParameters.minNumSamples,
                setStableParameters.maxVariance)

\* The new sample takes the place of the oldest one; an invalid sample
\* takes the oldest one out of the statistics
Push(h, sample) == Append(Tail(h), sample)

Abs(x) == IF x < 0 THEN -x ELSE x

\* The value c = <<sum, count>> lies within e/2 of the value p
WithinEnvelope(c, p, e) ==
    2 * Abs(c[1] * p[2] - p[1] * c[2]) <= e * c[2] * p[2]

\* The mean of a stable pixel replaces the pixel's output value if it lies
\* outside the hysteresis envelope around that value
Candidate(h) == <<Sum(h), NumValid(h)>>

Changes(h, p) ==
    /\ IsStable(h)
    /\ \/ p = Unpublished
       \/ ~WithinEnvelope(Candidate(h), p, setHysteresis)

(***************************************************************************)
(* The frame filter's thread receives a raw frame: the sample enters the   *)
(* averaging buffer, the output pixel is updated, and if the output frame  *)
(* changed it is passed to the output function, receiveFilteredFrame,      *)
(* which starts posting it into the triple buffer.                         *)
(***************************************************************************)
filterRawFrame(sample) ==
    /\ ppc = "idle"
    /\ posted < MaxFrames
    /\ averagingBuffer' = Push(averagingBuffer, sample)
    /\ numTicks' = numTicks + 1
    /\ everStable' = (everStable \/ StableUnder(averagingBuffer', minNumSamples, maxVariance))
    /\ IF Changes(averagingBuffer', published)
         THEN /\ published' = Candidate(averagingBuffer')
              /\ posted' = posted + 1
              /\ ppc' = "copy1"
         ELSE UNCHANGED <<published, posted, ppc>>

\* FrameFilter::receiveRawFrame, called with every raw frame
receiveRawFrame(sample) ==
    /\ filterRawFrame(sample)
    /\ UNCHANGED <<chanVars, reqVars, confVars, callbackVars, displayVars, pauseVars, filterConfVars, pipeVars, snowVars, registryVars,
                   gridVars, paramVars, timeVars, loopVars, cycleVars, countVars, mpc,
                   waterTableTime, request, bufVars, updateRequested,
                   imageVars>>

(***************************************************************************)
(* Sandbox::rawDepthFrameDispatcher, called in the camera's thread with    *)
(* every raw depth frame: the frame goes to the frame filter unless        *)
(* updates are paused, and to the hand extractor, which exists in a        *)
(* sandbox with a water table.                                             *)
(***************************************************************************)
rawDepthFrameDispatcherAlways(sample) ==
    /\ numRawFrames < MaxFrames
    /\ numRawFrames' = numRawFrames + 1
    /\ filterRawFrame(sample)
    /\ numHandFrames' = IF waterTable THEN numHandFrames + 1 ELSE numHandFrames
    /\ UNCHANGED <<chanVars, reqVars, confVars, callbackVars, displayVars, pauseUpdates,
                   pauseUpdatesToggle, numPresses, filterConfVars, pipeVars, snowVars,
                   registryVars, gridVars, paramVars, timeVars, loopVars, cycleVars,
                   countVars, mpc, waterTableTime, request, bufVars, updateRequested,
                   imageVars>>

rawDepthFrameDispatcher(sample) ==
    /\ numRawFrames < MaxFrames
    /\ numRawFrames' = numRawFrames + 1
    /\ IF ~pauseUpdates
          THEN filterRawFrame(sample)
          ELSE UNCHANGED <<filterVars, posted, ppc>>
    /\ numHandFrames' = IF waterTable THEN numHandFrames + 1 ELSE numHandFrames
    /\ UNCHANGED <<chanVars, reqVars, confVars, callbackVars, displayVars, pauseUpdates,
                   pauseUpdatesToggle, numPresses, filterConfVars, pipeVars, snowVars,
                   registryVars, gridVars, paramVars, timeVars, loopVars, cycleVars,
                   countVars, mpc, waterTableTime, request, bufVars, updateRequested,
                   imageVars>>

(***************************************************************************)
(* Pausing the topography: the toggle button of the main menu and the      *)
(* button of the pause tool, both handled by the foreground thread between *)
(* two frames.                                                             *)
(***************************************************************************)
\* Sandbox::pauseUpdatesCallback: the toggle button has been set to set
pauseUpdatesCallback(set) ==
    /\ mpc = "vrui"
    /\ numPresses < MaxPresses
    /\ set = ~pauseUpdatesToggle
    /\ pauseUpdatesToggle' = set
    /\ pauseUpdates' = set
    /\ numPresses' = numPresses + 1
    /\ UNCHANGED <<chanVars, reqVars, confVars, callbackVars, displayVars, numRawFrames,
                   numHandFrames, filterConfVars, filterVars, pipeVars, snowVars,
                   registryVars, gridVars, paramVars, timeVars, loopVars, cycleVars,
                   countVars, mpc, waterTableTime, request, bufVars, prodVars, imageVars>>

\* Sandbox::eventCallback for event 0, the pause tool: a press inverts
\* pauseUpdates and sets the toggle button to it, a release does nothing
eventCallback(newButtonState) ==
    /\ mpc = "vrui"
    /\ numPresses < MaxPresses
    /\ IF newButtonState
          THEN /\ pauseUpdates' = ~pauseUpdates
               /\ pauseUpdatesToggle' = pauseUpdates'
               /\ numPresses' = numPresses + 1
          ELSE UNCHANGED <<pauseUpdates, pauseUpdatesToggle, numPresses>>
    /\ UNCHANGED <<chanVars, reqVars, confVars, callbackVars, displayVars, numRawFrames,
                   numHandFrames, filterConfVars, filterVars, pipeVars, snowVars,
                   registryVars, gridVars, paramVars, timeVars, loopVars, cycleVars,
                   countVars, mpc, waterTableTime, request, bufVars, prodVars, imageVars>>

(***************************************************************************)
(* The state after construction.  The water table exists only if the       *)
(* configured water speed is positive; the water speed, the step cap and   *)
(* the forced minimum step size come from the configuration file and the   *)
(* command line.                                                           *)
(***************************************************************************)
InitChannel ==
    /\ currentRequest = InactiveRequest
    /\ mutex = "unlocked"
    /\ rpc = [t \in Requesters |-> "idle"]
    /\ rargs = [t \in Requesters |-> InactiveRequest]
    /\ rresult = [t \in Requesters |-> "none"]
    /\ rsubmits = 0
    /\ rEmptyAtCall = [t \in Requesters |-> FALSE]
    /\ rTaken = [t \in Requesters |-> FALSE]
    /\ lastGrant = <<>>
    /\ numGranted = [t \in Requesters |-> 0]
    /\ numTaken = 0
    /\ numCompleted = [t \in Requesters |-> 0]
    /\ callbackResult = "none"

InitMain ==
    /\ mpc = "vrui"
    /\ appTime = 0
    /\ frameTime = 0
    /\ waterTableTime = 0
    /\ request = InactiveRequest
    /\ totalTimeStep = 0
    /\ numSteps = 0
    /\ budget = 0
    /\ executed = 0
    /\ bathymetryUpdated = FALSE
    /\ loopDone = FALSE
    /\ copied = {}
    /\ cycleTakes = 0
    /\ takePhase = "none"
    /\ invoked = <<>>
    /\ bathymetryVersion = 0
    /\ gridVersion = 0
    /\ numContributions = 0
    /\ atStart = [bathymetry |-> 0, grid |-> 0, contributions |-> 0]
    /\ numUpdates = 0
    /\ pauseUpdates = FALSE
    /\ pauseUpdatesToggle = FALSE
    /\ numRawFrames = 0
    /\ numHandFrames = 0
    /\ numPresses = 0

InitHandoff ==
    /\ buffer = [i \in 0..2 |-> Frame(0)]
    /\ lockedSlot = 0
    /\ readySlot = 1
    /\ writeSlot = 2
    /\ ppc = "idle"
    /\ posted = 0
    /\ updateRequested = FALSE
    /\ firstHalf = 0
    /\ depthImage = Frame(0)
    /\ numObserved = 0

\* The samples of a raw frame's pixel
Samples == {Invalid} \cup 0..MaxSample

\* The frame filter has seen no frame yet
InitFilter ==
    /\ averagingBuffer = [i \in 1..numAveragingSlots |-> Invalid]
    /\ published = Unpublished
    /\ everStable = FALSE
    /\ numTicks = 0

\* Nothing waits in the control pipe
InitPipe ==
    /\ pipe = <<>>
    /\ commandBuffer = <<>>
    /\ rainStrength = 0
    /\ numReported = 0

\* The water table as Sandbox::Sandbox sets it up: flat terrain, no water,
\* no snow, the snow line at the top of the elevation range, no hands, and
\* addWater registered
InitWaterTable ==
    /\ elevation = [c \in Cells |-> 0]
    /\ snowLine = MaxElevation
    /\ waterGrid = [c \in Cells |-> 0]
    /\ snowGrid = [c \in Cells |-> 0]
    /\ extractedHands = {}
    /\ renderFunctionList = IF waterTable THEN <<"addWater">> ELSE <<>>
    /\ invocations = <<>>

DefaultNumAveragingSlots == 30

DefaultMinNumSamples == 10

DefaultMaxVariance == 2

\* The default filter parameters, the hysteresis in units of a tenth
InitFilterConfig ==
    /\ numAveragingSlots = DefaultNumAveragingSlots
    /\ minNumSamples = DefaultMinNumSamples
    /\ maxVariance = DefaultMaxVariance
    /\ hysteresis = 1

\* Any configuration
InitConfig ==
    /\ waterSpeed \in 0..MaxSpeed
    /\ waterTable = (waterSpeed > 0)
    /\ waterMaxSteps \in 0..MaxStepsCap
    /\ minStepSize \in 0..MaxMinStep
    /\ controlPipeOpen \in BOOLEAN

Init ==
    InitChannel /\ InitMain /\ InitHandoff /\ InitConfig
    /\ InitFilterConfig /\ InitFilter /\ InitPipe /\ InitWaterTable

Requester ==
    \E t \in Requesters :
        \/ \E a \in RequestArgs(t) : requestGridsCall(t, a)
        \/ requestGridsLock(t)
        \/ requestGridsTest(t)
        \/ requestGridsRefuse(t)
        \/ requestGridsStore(t)

Producer ==
    \/ receiveFilteredFrame
    \/ postCopyFirst
    \/ postCopySecond
    \/ postNewValue
    \/ requestUpdate

FrameLock ==
    \/ frameLockNewValue
    \/ frameSetDepthImageFirst
    \/ frameSetDepthImageSecond

ControlPipe ==
    \/ \E v \in -1..MaxSpeed : frameWaterSpeed(v)
    \/ \E n \in 0..MaxStepsCap : frameWaterMaxSteps(n)

UpdateBlock ==
    \/ displayUpdate
    \/ getRequestLock
    \/ getRequest
    \/ displayUpdateBathymetry
    \/ \E cfl \in -1..MaxCfl : displayStep(cfl)
    \/ displayLoopExit
    \/ displayReadBack
    \/ displayComplete
    \/ displayMark

Next ==
    \/ Requester
    \/ Producer
    \/ \E sample \in Samples : numTicks < MaxTicks /\ receiveRawFrame(sample)
    \/ \E f \in RenderFunctions : addRenderFunction(f) \/ removeRenderFunction(f)
    \/ \E value \in 0..MaxElevation : snowLineSliderCallback(value)
    \/ \E hands \in SUBSET Cells : frameLockNewExtractedHands(hands)
    \/ frameControlPipe
    \/ \E dt \in 0..MaxFrameTime : VruiFrame(dt)
    \/ VruiRedisplay
    \/ FrameLock
    \/ frameNoCommand
    \/ ControlPipe
    \/ displaySkip
    \/ UpdateBlock
    \/ displayCompleteResubmit
    \/ callbackRequestGridsLock
    \/ callbackRequestGrids
    \/ \E sample \in Samples : rawDepthFrameDispatcher(sample)
    \/ \E set \in BOOLEAN : pauseUpdatesCallback(set)
    \/ \E newButtonState \in BOOLEAN : eventCallback(newButtonState)

Spec == Init /\ [][Next]_vars

(***************************************************************************)
(* The snapshot request channel: requester threads against the foreground  *)
(* thread, in a sandbox with a water table, no control pipe and no forced  *)
(* minimum step size.                                                      *)
(***************************************************************************)
InitChannelConfig ==
    /\ waterSpeed = 1
    /\ waterTable = TRUE
    /\ waterMaxSteps = 1
    /\ minStepSize = 0
    /\ controlPipeOpen = FALSE

NextChannel ==
    \/ Requester
    \/ VruiFrame(Epsilon + 1)
    \/ VruiRedisplay
    \/ frameLockNewValue
    \/ frameNoCommand
    \/ displaySkip
    \/ UpdateBlock

InitChannelSpec ==
    InitChannel /\ InitMain /\ InitHandoff /\ InitChannelConfig
    /\ InitFilterConfig /\ InitFilter /\ InitPipe /\ InitWaterTable

SpecChannel ==
    InitChannelSpec /\ [][NextChannel]_vars

(***************************************************************************)
(* The stepping loop: the foreground thread alone, in any configuration,   *)
(* with commands arriving on the control pipe.                             *)
(***************************************************************************)
NextBudget ==
    \/ \E dt \in 0..MaxFrameTime : VruiFrame(dt)
    \/ VruiRedisplay
    \/ frameLockNewValue
    \/ frameNoCommand
    \/ ControlPipe
    \/ displaySkip
    \/ UpdateBlock

SpecBudget ==
    Init /\ [][NextBudget]_vars

(***************************************************************************)
(* The frame hand-off: the frame filter's thread against the foreground    *)
(* thread, in a sandbox without water simulation and without control pipe. *)
(***************************************************************************)
InitHandoffConfig ==
    /\ waterSpeed = 0
    /\ waterTable = FALSE
    /\ waterMaxSteps \in 0..MaxStepsCap
    /\ minStepSize = 0
    /\ controlPipeOpen = FALSE

NextHandoff ==
    \/ Producer
    \/ \E dt \in 0..MaxFrameTime : VruiFrame(dt)
    \/ VruiRedisplay
    \/ FrameLock
    \/ frameNoCommand
    \/ displaySkip

InitHandoffSpec ==
    InitChannel /\ InitMain /\ InitHandoff /\ InitHandoffConfig
    /\ InitFilterConfig /\ InitFilter /\ InitPipe /\ InitWaterTable

SpecHandoff ==
    InitHandoffSpec /\ [][NextHandoff]_vars

(***************************************************************************)
(* The terrain and the water simulation: the frame filter's thread against *)
(* the foreground thread, in a sandbox with a water table whose water      *)
(* speed the control pipe changes.                                         *)
(***************************************************************************)
InitTerrainConfig ==
    /\ waterSpeed = 1
    /\ waterTable = TRUE
    /\ waterMaxSteps \in 1..MaxStepsCap
    /\ minStepSize = 0
    /\ controlPipeOpen = TRUE

NextTerrain ==
    \/ Producer
    \/ \E dt \in 0..MaxFrameTime : VruiFrame(dt)
    \/ VruiRedisplay
    \/ FrameLock
    \/ frameNoCommand
    \/ \E v \in -1..1 : frameWaterSpeed(v)
    \/ displaySkip
    \/ UpdateBlock

InitTerrainSpec ==
    InitChannel /\ InitMain /\ InitHandoff /\ InitTerrainConfig
    /\ InitFilterConfig /\ InitFilter /\ InitPipe /\ InitWaterTable

SpecTerrain ==
    InitTerrainSpec /\ [][NextTerrain]_vars

(***************************************************************************)
(* The default configuration at 30 frames per second: water speed 1.0, at  *)
(* most 30 steps per frame, no forced minimum step size, and a frame time  *)
(* of 1/30 s; the stability constraint yields a step size of zero, of a    *)
(* thirtieth or a third of the frame time, or of the whole frame time.     *)
(***************************************************************************)
DefaultWaterSpeed == 1

DefaultWaterMaxSteps == 30

DefaultWaterMinTimeStep == 0

\* 1/30 s in units of 1.0e-8 s
ThirtiethSecond == 100000000 \div 30

ScenarioStepSizes ==
    {0, ThirtiethSecond \div 30, ThirtiethSecond \div 3, ThirtiethSecond}

InitScenarioConfig ==
    /\ waterSpeed = DefaultWaterSpeed
    /\ waterTable = TRUE
    /\ waterMaxSteps = DefaultWaterMaxSteps
    /\ minStepSize = DefaultWaterMinTimeStep
    /\ controlPipeOpen = FALSE

NextScenario ==
    \/ VruiFrame(ThirtiethSecond)
    \/ VruiRedisplay
    \/ frameLockNewValue
    \/ frameNoCommand
    \/ displaySkip
    \/ displayUpdate
    \/ getRequestLock
    \/ getRequest
    \/ displayUpdateBathymetry
    \/ \E cfl \in ScenarioStepSizes : displayStep(cfl)
    \/ displayLoopExit
    \/ displayReadBack
    \/ displayComplete
    \/ displayMark

InitScenarioSpec ==
    InitChannel /\ InitMain /\ InitHandoff /\ InitScenarioConfig
    /\ InitFilterConfig /\ InitFilter /\ InitPipe /\ InitWaterTable

SpecScenario ==
    InitScenarioSpec /\ [][NextScenario]_vars

(***************************************************************************)
(* The frame filter: its thread receives raw frames with any samples, in   *)
(* any configuration of the filter, and the foreground thread takes the    *)
(* frames it posts.                                                        *)
(***************************************************************************)
InitStabilizerConfig ==
    /\ numAveragingSlots \in 1..MaxSlots
    /\ minNumSamples \in 1..numAveragingSlots
    /\ maxVariance \in {0, MaxVariance}
    /\ hysteresis \in {0, MaxHysteresis}

NextStabilizer ==
    \/ \E sample \in Samples : numTicks < MaxTicks /\ receiveRawFrame(sample)
    \/ postCopyFirst
    \/ postCopySecond
    \/ postNewValue
    \/ requestUpdate

InitStabilizerSpec ==
    InitChannel /\ InitMain /\ InitHandoff /\ InitHandoffConfig
    /\ InitStabilizerConfig /\ InitFilter /\ InitPipe /\ InitWaterTable

SpecStabilizer ==
    InitStabilizerSpec /\ [][NextStabilizer]_vars

(***************************************************************************)
(* The frame filter with ten averaging slots and the default stability     *)
(* parameters and hysteresis: ten samples of 50.0, one of 50.05 and ten of *)
(* 55.0, in units of a twentieth.                                          *)
(***************************************************************************)
Resolution == 4 * 5

ScenarioSamples ==
    [i \in 1..(2 * DefaultMinNumSamples + 1) |->
        IF i <= DefaultMinNumSamples THEN 50 * Resolution
        ELSE IF i = DefaultMinNumSamples + 1 THEN 50 * Resolution + 1
        ELSE 55 * Resolution]

InitFilterScenarioConfig ==
    /\ numAveragingSlots = DefaultMinNumSamples
    /\ minNumSamples = DefaultMinNumSamples
    /\ maxVariance = DefaultMaxVariance * Resolution * Resolution
    /\ hysteresis = Resolution \div 10

NextFilterScenario ==
    \/ numTicks < Len(ScenarioSamples) /\ receiveRawFrame(ScenarioSamples[numTicks + 1])
    \/ postCopyFirst
    \/ postCopySecond
    \/ postNewValue
    \/ requestUpdate
    \/ \E dt \in 0..MaxFrameTime : VruiFrame(dt)
    \/ VruiRedisplay
    \/ FrameLock
    \/ frameNoCommand
    \/ displaySkip

InitFilterScenarioSpec ==
    InitChannel /\ InitMain /\ InitHandoff /\ InitHandoffConfig
    /\ InitFilterScenarioConfig /\ InitFilter /\ InitPipe /\ InitWaterTable

SpecFilterScenario ==
    InitFilterScenarioSpec /\ [][NextFilterScenario]_vars

(***************************************************************************)
(* The control pipe: the foreground thread alone, in a sandbox without     *)
(* water simulation, with any few lines waiting in the control pipe.       *)
(***************************************************************************)
\* Lines with an unknown command or a wrong number of arguments
BadLines ==
    {<<"bogus">>, <<"bogus", " ", "2">>, <<"waterSpeed">>,
     <<"waterSpeed", " ", "2", " ", "1">>, <<"waterMaxSteps", " ">>,
     <<"rainStrength", " ", "1", " ", "1">>}

\* Well-formed command lines, empty lines and blank lines
GoodLines ==
    {<<"waterSpeed", " ", "2">>, <<" ", "WATERSPEED", " ", " ", "1", " ">>,
     <<"waterSpeed", " ", "-1">>, <<"waterMaxSteps", " ", "2">>,
     <<"waterMaxSteps", " ", "-1">>, <<"rainStrength", " ", "1">>,
     <<"RainStrength", " ", "2">>, <<>>, <<" ">>}

Lines == BadLines \cup GoodLines

Chunks == UNION {[1..n -> Lines] : n \in 0..MaxLines}

InitControlConfig ==
    /\ waterSpeed = 0
    /\ waterTable = FALSE
    /\ waterMaxSteps \in 0..MaxStepsCap
    /\ minStepSize = 0
    /\ controlPipeOpen = TRUE

InitControlPipe ==
    /\ pipe \in Chunks
    /\ commandBuffer = <<>>
    /\ rainStrength = 0
    /\ numReported = 0

NextControl ==
    \/ \E dt \in 0..MaxFrameTime : VruiFrame(dt)
    \/ VruiRedisplay
    \/ frameLockNewValue
    \/ frameNoCommand
    \/ frameControlPipe
    \/ displaySkip

InitControlSpec ==
    InitChannel /\ InitMain /\ InitHandoff /\ InitControlConfig
    /\ InitFilterConfig /\ InitFilter /\ InitControlPipe /\ InitWaterTable

SpecControl ==
    InitControlSpec /\ [][NextControl]_vars

(***************************************************************************)
(* The water table's grids and render functions: the foreground thread     *)
(* alone, in a sandbox with a water table, with hands over any cells, any  *)
(* terrain, and collaborators that add and remove render functions and     *)
(* move the snow line slider between frames.                               *)
(***************************************************************************)
\* Math::clamp
clamp(value, min, max) ==
    IF value < min THEN min ELSE IF value > max THEN max ELSE value

InitWaterTableConfig ==
    /\ waterSpeed = 1
    /\ waterTable = TRUE
    /\ waterMaxSteps \in 1..MaxStepsCap
    /\ minStepSize = 0
    /\ controlPipeOpen = FALSE

\* Any terrain; the configured snow line, clamped to the elevation range
InitWaterTableAny ==
    /\ elevation \in [Cells -> 0..MaxElevation]
    /\ \E line \in -1..(MaxElevation + 1) :
           snowLine = clamp(line, 0, MaxElevation)
    /\ waterGrid = [c \in Cells |-> 0]
    /\ snowGrid = [c \in Cells |-> 0]
    /\ extractedHands = {}
    /\ renderFunctionList = <<"addWater">>
    /\ invocations = <<>>

InitRain ==
    /\ pipe = <<>>
    /\ commandBuffer = <<>>
    /\ rainStrength \in 1..MaxRain
    /\ numReported = 0

NextWaterTable ==
    \/ VruiFrame(Epsilon + 2)
    \/ VruiRedisplay
    \/ frameLockNewValue
    \/ frameNoCommand
    \/ \E hands \in SUBSET Cells : frameLockNewExtractedHands(hands)
    \/ \E value \in 0..MaxElevation : snowLineSliderCallback(value)
    \/ \E f \in RenderFunctions : addRenderFunction(f) \/ removeRenderFunction(f)
    \/ displaySkip
    \/ displayUpdate
    \/ getRequestLock
    \/ getRequest
    \/ displayUpdateBathymetry
    \/ displayStep(1)
    \/ displayLoopExit
    \/ displayReadBack
    \/ displayComplete
    \/ displayMark

InitWaterTableSpec ==
    InitChannel /\ InitMain /\ InitHandoff /\ InitWaterTableConfig
    /\ InitFilterConfig /\ InitFilter /\ InitRain /\ InitWaterTableAny

SpecWaterTable ==
    InitWaterTableSpec /\ [][NextWaterTable]_vars

(***************************************************************************)
(* Properties of the snapshot request channel (SpecChannel).               *)
(***************************************************************************)
\* The last calls of t1 and t2 have both returned, both were issued while
\* the slot held no active request, and getRequest ran after neither issue
ConcurrentOnEmpty(t1, t2) ==
    /\ t1 # t2
    /\ rresult[t1] # "none" /\ rresult[t2] # "none"
    /\ rEmptyAtCall[t1] /\ rEmptyAtCall[t2]
    /\ ~rTaken[t1] /\ ~rTaken[t2]

ExactlyOneGranted(t1, t2) ==
    (rresult[t1] = "granted") # (rresult[t2] = "granted")

\* C1 as stated: of two calls of requestGrids issued while the slot is empty,
\* with no getRequest in between, exactly one returns true and the other
\* returns false, whatever their arguments.
C1_ExactlyOneSucceeds ==
    \A t1, t2 \in Requesters :
        ConcurrentOnEmpty(t1, t2) => ExactlyOneGranted(t1, t2)

\* C1 as amended: of two calls of requestGrids that pass a non-null callback
\* and are issued while the slot is empty, with no getRequest in between,
\* exactly one returns true and the other returns false.
C1_ExactlyOneActiveSucceeds ==
    \A t1, t2 \in Requesters :
        ConcurrentOnEmpty(t1, t2) /\ isActive(rargs[t1]) /\ isActive(rargs[t2])
            => ExactlyOneGranted(t1, t2)

C1_Witness ==
    /\ ConcurrentOnEmpty("r1", "r2")
    /\ isActive(rargs["r1"]) /\ isActive(rargs["r2"])
    /\ rresult["r1"] = "refused" /\ rresult["r2"] = "granted"

\* The foreground thread holds a request it took and has not yet completed
InService ==
    mpc \in {"updateBathymetry", "loop", "readBack", "complete"} /\ isActive(request)

AllGrids == {"bathymetry", "waterLevel", "snowHeight"}

\* C6: for every active request getRequest returns, the callback is invoked
\* exactly once, in the same update block, after every grid the request asks
\* for has been read back into its buffers; it is not invoked for an inactive
\* request, and over all cycles the invocations equal the requests taken,
\* less the one being serviced.
C6_CallbackOncePerTakenRequest ==
    /\ Len(invoked) <= 1
    /\ mpc = "mark" =>
          invoked = IF isActive(request)
                       THEN <<[request |-> request, copied |-> Requested(request)]>>
                       ELSE <<>>
    /\ mpc # "mark" => invoked = <<>>
    /\ numTaken = Total(numCompleted) + (IF InService THEN 1 ELSE 0)

C6_Witness ==
    /\ mpc = "mark"
    /\ appTime = 2
    /\ isActive(request)
    /\ Requested(request) = AllGrids
    /\ Len(invoked) = 1
    /\ Total(numCompleted) = 2

\* C7 as stated: a display cycle that updates the water simulation calls
\* getRequest exactly once, after its stepping loop has completed.
C7_TakeOnceAfterLoop ==
    mpc = "mark" => cycleTakes = 1 /\ takePhase = "afterLoop"

\* C7 as amended: a display cycle that updates the water simulation calls
\* getRequest exactly once, as its first operation, before the bathymetry
\* update and before the stepping loop; the callback of the request it took
\* is invoked only after the loop has completed; a display call that skips
\* the update does not call getRequest.
C7_TakeOnceBeforeBathymetry ==
    /\ cycleTakes <= 1
    /\ mpc \in {"updateBathymetry", "loop", "readBack", "complete", "mark"} =>
          cycleTakes = 1 /\ takePhase = "beforeBathymetry"
    /\ mpc \in {"getRequest", "getRequestLocked"} =>
          cycleTakes = 0 /\ ~bathymetryUpdated /\ ~loopDone
    /\ mpc \in {"vrui", "frame", "controlPipe", "display"} => cycleTakes = 0
    /\ invoked # <<>> => loopDone

C7_Witness ==
    /\ mpc = "mark"
    /\ cycleTakes = 1
    /\ takePhase = "beforeBathymetry"
    /\ numSteps >= 1
    /\ invoked # <<>>

\* Active requests accepted by requestGrids whose callback has not yet run
Live == Total(numGranted) - Total(numCompleted)

\* C8 as stated: at any time at most one request is live, that is accepted
\* by requestGrids and not yet completed by its callback.
C8_AtMostOneLive ==
    Live <= 1

\* C8 as amended: at any time at most one accepted request is pending in the
\* slot, and at most one more, which getRequest has removed from the slot, is
\* being serviced by the foreground thread: at most two are live.
C8_AtMostOnePendingOneInService ==
    /\ Total(numGranted) - numTaken = (IF isActive(currentRequest) THEN 1 ELSE 0)
    /\ numTaken - Total(numCompleted) \in {0, 1}
    /\ numTaken - Total(numCompleted) = 1 => InService
    /\ Live <= 2

C8_Witness ==
    /\ Live = 2
    /\ mpc = "loop"
    /\ isActive(request)
    /\ isActive(currentRequest)
    /\ currentRequest # request

\* C9: a call of requestGrids that finds an active request in the slot
\* returns false and leaves the five fields of that request unchanged, and a
\* call issued while an active request is pending, with no getRequest before
\* it returns, is such a call; a requester's callback is invoked at most as
\* often as its calls were granted.
C9_RefusedLeavesPending ==
    /\ [][\A t \in Requesters :
            rpc[t] = "test" /\ rpc'[t] # "test" /\ isActive(currentRequest)
                => /\ rresult'[t] = "refused"
                   /\ rpc'[t] = "idle"
                   /\ currentRequest' = currentRequest]_vars
    /\ [](\A t \in Requesters :
            /\ rpc[t] = "idle" /\ rresult[t] # "none"
               /\ ~rEmptyAtCall[t] /\ ~rTaken[t] => rresult[t] = "refused"
            /\ numCompleted[t] <= numGranted[t])

C9_Witness ==
    \E t \in Requesters :
        /\ rresult[t] = "refused"
        /\ ~rEmptyAtCall[t]
        /\ isActive(rargs[t])
        /\ numGranted[t] = 0
        /\ Total(numCompleted) = 1
        /\ mpc = "mark"

\* The step in which getRequest returns
TakeStep ==
    mpc = "getRequestLocked" /\ mpc' # mpc

\* A step in which requestGrids, called by t, leaves its test of the slot
TestStep(t) ==
    rpc[t] = "test" /\ rpc'[t] # "test"

\* C10 as stated: for every argument list, a granted requestGrids followed
\* by getRequest with no operation on the slot in between makes getRequest
\* return an active request with exactly the stored fields and leave the slot
\* inactive, so that a getRequest that follows returns an inactive request and
\* a requestGrids that follows is granted.
C10_RoundTrip ==
    /\ [][TakeStep /\ lastGrant # <<>>
            => /\ isActive(request')
               /\ request' = lastGrant[1]
               /\ ~isActive(currentRequest')]_vars
    /\ [][TakeStep /\ ~isActive(currentRequest) => ~isActive(request')]_vars
    /\ [][\A t \in Requesters :
            TestStep(t) /\ ~isActive(currentRequest) => rpc'[t] = "store"]_vars
    /\ [][\A t \in Requesters :
            rpc[t] = "store" /\ rpc'[t] # "store"
                => rresult'[t] = "granted" /\ currentRequest' = rargs[t]]_vars

\* C10 as amended: the same, for every argument list with a non-null
\* callback.
C10_RoundTripActive ==
    /\ [][TakeStep /\ lastGrant # <<>> /\ isActive(lastGrant[1])
            => /\ isActive(request')
               /\ request' = lastGrant[1]
               /\ ~isActive(currentRequest')]_vars
    /\ [][TakeStep => ~isActive(currentRequest')]_vars
    /\ [][TakeStep /\ ~isActive(currentRequest) => ~isActive(request')]_vars
    /\ [][\A t \in Requesters :
            TestStep(t) /\ ~isActive(currentRequest) => rpc'[t] = "store"]_vars
    /\ [][\A t \in Requesters :
            rpc[t] = "store" /\ rpc'[t] # "store"
                => rresult'[t] = "granted" /\ currentRequest' = rargs[t]]_vars

C10_Witness ==
    /\ mpc = "updateBathymetry"
    /\ appTime = 2
    /\ isActive(request)
    /\ ~isActive(currentRequest)
    /\ \E t \in Requesters :
          request = rargs[t] /\ rresult[t] = "granted" /\ numGranted[t] = 2

(***************************************************************************)
(* Properties of the frame hand-off (SpecHandoff).                         *)
(***************************************************************************)
\* C2: under every interleaving of the producer's post and the consumer's
\* lockNewValue, the version of the frame in the locked slot and the
\* version of the frame handed to the depth image renderer never decrease:
\* the consumer never observes a frame older than one it has observed.
C2_VersionsNonDecreasing ==
    [][/\ Version(buffer'[lockedSlot']) >= Version(buffer[lockedSlot])
       /\ Version(depthImage') >= Version(depthImage)]_vars

C2_Witness ==
    /\ numObserved >= 2
    /\ Version(depthImage) >= 2
    /\ ppc = "copy2"

\* C3: under every interleaving, also while a copy into the write slot is
\* in progress, the locked slot and the ready slot hold completely written
\* frames, the frame handed to the depth image renderer is completely
\* written, and the slot the producer writes into is neither the locked nor
\* the ready slot.
C3_NoTearing ==
    /\ IsComplete(buffer[lockedSlot])
    /\ IsComplete(buffer[readySlot])
    /\ IsComplete(depthImage)
    /\ writeSlot \notin {lockedSlot, readySlot}

C3_Witness ==
    /\ mpc = "setDepthImage2"
    /\ ppc = "copy2"
    /\ ~IsComplete(buffer[writeSlot])
    /\ Version(buffer[lockedSlot]) >= 1

\* Version of the frame of the last post that has completed
LatestCompleted ==
    IF ppc \in {"copy1", "copy2", "swap"} THEN posted - 1 ELSE posted

\* The step in which lockNewValue returns true
LockStep ==
    mpc = "frame" /\ lockedSlot' # lockedSlot

\* C11: the producer's post is never blocked, whatever the consumer does;
\* the most recently completed frame is in the ready slot unless the consumer
\* has locked it already, so that a successful lockNewValue yields exactly
\* that frame; every frame the renderer is handed is strictly newer than the
\* one before, so a superseded frame is never observed afterwards.
C11_LatestValueWins ==
    /\ [](/\ ppc = "copy1" => ENABLED postCopyFirst
          /\ ppc = "copy2" => ENABLED postCopySecond
          /\ ppc = "swap" => ENABLED postNewValue
          /\ ppc = "requestUpdate" => ENABLED requestUpdate
          /\ LatestCompleted \in {Version(buffer[readySlot]),
                                  Version(buffer[lockedSlot])}
          /\ Version(buffer[readySlot]) <= LatestCompleted
          /\ Version(buffer[lockedSlot]) <= LatestCompleted)
    /\ [][LockStep => /\ Version(buffer'[lockedSlot']) = LatestCompleted
                      /\ Version(buffer'[lockedSlot']) > Version(buffer[lockedSlot])]_vars
    /\ [][numObserved' # numObserved
            => /\ Version(depthImage') > Version(depthImage)
               /\ depthImage' = buffer[lockedSlot]]_vars

C11_Witness ==
    /\ numObserved = 2
    /\ Version(depthImage) = MaxFrames
    /\ Version(buffer[readySlot]) = 1
    /\ posted = MaxFrames

\* C12: lockNewValue returns true exactly if the ready slot holds a frame
\* newer than the locked one, which is so exactly if a post has completed
\* since the last successful lockNewValue; when it returns false the slots
\* and the depth image are unchanged; the depth image changes only in
\* setDepthImage; right after a successful lockNewValue there is no new
\* value, and only a completing post makes one.
C12_LockIffNewer ==
    /\ [](hasNewValue <=> LatestCompleted > Version(buffer[lockedSlot]))
    /\ [][mpc = "frame" /\ mpc' # mpc
            => /\ (mpc' = "setDepthImage") <=> hasNewValue
               /\ (mpc' = "controlPipe") <=> ~hasNewValue
               /\ ~hasNewValue => UNCHANGED <<bufVars, imageVars>>]_vars
    /\ [][depthImage' # depthImage => mpc = "setDepthImage2"]_vars
    /\ [][LockStep => ~hasNewValue']_vars
    /\ [][~hasNewValue /\ hasNewValue' => ppc = "swap" /\ ppc' # ppc]_vars

C12_Witness ==
    /\ mpc = "controlPipe"
    /\ appTime = 2
    /\ numObserved = 1
    /\ Version(depthImage) = 1
    /\ posted = 2
    /\ ppc = "swap"

(***************************************************************************)
(* Properties of the stepping loop (SpecBudget).                           *)
(***************************************************************************)
InLoopOrAfter ==
    mpc \in {"loop", "readBack", "complete", "mark"}

\* C4: in every display cycle, whatever the budget (frame time times water
\* speed) and the step sizes, the sum of the executed step sizes is at most
\* the budget, and the remaining budget is never negative.
C4_BudgetConserved ==
    InLoopOrAfter => executed <= budget /\ totalTimeStep >= 0

\* The update block has computed a budget that is at most the threshold
ZeroBudgetCycle ==
    InLoopOrAfter /\ budget <= Epsilon

\* C13 as stated: in a cycle whose budget is at most epsilon no step runs,
\* no render function is invoked, and the bathymetry grid, the water grid and
\* the snow grid are as they were when the cycle began.
C13_ZeroBudgetNoOp ==
    ZeroBudgetCycle =>
        /\ numSteps = 0 /\ executed = 0
        /\ numContributions = atStart.contributions
        /\ gridVersion = atStart.grid
        /\ bathymetryVersion = atStart.bathymetry

\* C13 as amended: in a cycle whose budget is at most epsilon no step runs,
\* no render function is invoked, and the water grid and the snow grid are as
\* they were when the cycle began; the bathymetry grid is updated as in any
\* other cycle and holds the current depth image.
C13_ZeroBudgetNoStep ==
    /\ ZeroBudgetCycle =>
          /\ numSteps = 0 /\ executed = 0
          /\ numContributions = atStart.contributions
          /\ gridVersion = atStart.grid
    /\ InLoopOrAfter => bathymetryVersion = Version(depthImage)

C13_Witness ==
    /\ mpc = "mark"
    /\ budget = 0
    /\ frameTime > 0
    /\ waterSpeed = 0
    /\ appTime = 2
    /\ bathymetryVersion # atStart.bathymetry

\* The stepping loop of the cycle has been left
AfterLoop ==
    mpc \in {"readBack", "complete", "mark"}

\* C14 as stated: with water speed 1.0, at most 30 steps and no minimum step
\* size, a cycle with a frame time of 1/30 s executes at least 1 and at most
\* 30 steps, whose sizes sum to exactly the budget: the remaining budget at
\* loop exit is zero, here taken up to the threshold of the loop.
C14_ScenarioExactBudget ==
    AfterLoop =>
        /\ numSteps >= 1 /\ numSteps <= DefaultWaterMaxSteps
        /\ budget - executed <= Epsilon
        /\ totalTimeStep >= 0 /\ totalTimeStep <= Epsilon

\* C14 as amended: such a cycle executes at least 1 and at most 30 steps,
\* whose sizes sum to at most the budget; if it executes fewer than 30 steps
\* the remaining budget at loop exit is at most epsilon, and if it executes
\* 30 steps the remaining budget is whatever these have left.
C14_ScenarioWithinBudget ==
    AfterLoop =>
        /\ budget = ThirtiethSecond
        /\ numSteps >= 1 /\ numSteps <= DefaultWaterMaxSteps
        /\ executed <= budget
        /\ totalTimeStep = budget - executed
        /\ numSteps < DefaultWaterMaxSteps => totalTimeStep <= Epsilon

C14_Witness ==
    /\ mpc = "mark"
    /\ numSteps = DefaultWaterMaxSteps
    /\ executed > 0
    /\ totalTimeStep > Epsilon
    /\ totalTimeStep < ThirtiethSecond \div 30

\* C5: the stepping loop runs at most waterMaxSteps iterations, each of
\* which counts as one step whatever step size it executes, zero included;
\* with waterMaxSteps = 0 no step is executed.
C5_AtMostMaxSteps ==
    /\ [](/\ numSteps <= waterMaxSteps
          /\ (waterMaxSteps = 0 => numSteps = 0 /\ executed = 0))
    /\ [][mpc = "loop" /\ mpc' = "loop" => numSteps' = numSteps + 1]_vars

C5_Witness ==
    /\ mpc = "readBack"
    /\ waterMaxSteps = MaxStepsCap
    /\ numSteps = waterMaxSteps
    /\ executed = 0
    /\ totalTimeStep > Epsilon

(***************************************************************************)
(* Properties of the frame filter (SpecStabilizer, SpecFilterScenario).    *)
(***************************************************************************)
\* A raw frame has just been received
Tick == numTicks' = numTicks + 1

\* The sample lies within hysteresis/2 of the pixel's output value
SampleInEnvelope(sample) ==
    /\ sample # Invalid
    /\ WithinEnvelope(<<sample, 1>>, published, hysteresis)

\* The pixel's output value is v
PublishedIs(v) ==
    /\ published # Unpublished
    /\ published[1] = v * published[2]

C16_ConvergenceGating ==
    published # Unpublished => everStable

\* The pixel keeps its output value while its averaging buffer is unstable
C16_Witness ==
    /\ published # Unpublished
    /\ everStable
    /\ ~StableUnder(averagingBuffer, minNumSamples, maxVariance)

\* C17: nothing is published before the tenth sample of 50.0; after it and
\* after the sample of 50.05 exactly one frame has been published and the
\* output value is 50.0; after the ten samples of 55.0 the output value is
\* 55.0
C17_StabilizerScenario ==
    /\ numTicks < DefaultMinNumSamples
           => (published = Unpublished /\ posted = 0)
    /\ numTicks \in {DefaultMinNumSamples, DefaultMinNumSamples + 1}
           => (posted = 1 /\ PublishedIs(50 * Resolution))
    /\ numTicks = Len(ScenarioSamples) => PublishedIs(55 * Resolution)

\* All samples have been received, a second frame has been posted, and the
\* foreground thread has taken it
C17_Witness ==
    /\ numTicks = Len(ScenarioSamples)
    /\ PublishedIs(55 * Resolution)
    /\ posted = 2
    /\ Version(depthImage) = 2

(***************************************************************************)
(* Properties of the control pipe (SpecControl).                           *)
(***************************************************************************)
NotBad(line) == line \notin BadLines

\* The chunk has just been read and its commands carried out
ChunkStep == commandBuffer' # commandBuffer

\* C18: the commands of a chunk leave the parameters as the same chunk
\* without its bad lines would leave them, and one message is reported for
\* each bad line
C18_BadLinesSkipped ==
    [][ChunkStep =>
          LET expected == frameCommands(Text(SelectSeq(pipe, NotBad)), 1, Parameters)
          IN /\ waterSpeed' = expected.waterSpeed
             /\ waterMaxSteps' = expected.waterMaxSteps
             /\ rainStrength' = expected.rainStrength
             /\ expected.reported = numReported
             /\ numReported' = numReported + Len(pipe) - Len(SelectSeq(pipe, NotBad))]_vars

\* A chunk whose first line is bad and whose second line sets the water
\* speed has been read: one message, and the water speed is set
C18_Witness ==
    /\ commandBuffer = Text(<<<<"waterSpeed">>, <<"waterSpeed", " ", "2">>>>)
    /\ numReported = 1
    /\ waterSpeed = 2

WaterSpeedSliderMax == 10

WaterMaxStepsSliderMax == 200

\* C19: the water speed, the step cap and the rain strength are within
\* their valid ranges, those of the sliders and of the README
C19_ParametersInRange ==
    /\ waterSpeed \in 0..WaterSpeedSliderMax
    /\ waterMaxSteps \in 0..WaterMaxStepsSliderMax
    /\ rainStrength \in 0..1

(***************************************************************************)
(* Properties of the water table's grids and render functions              *)
(* (SpecWaterTable).                                                       *)
(***************************************************************************)
\* A simulation step has just been executed
SimulationStep == numSteps' = numSteps + 1

\* The depth Sandbox::addWater adds to cell c in a step
Rain(c) == IF c \in extractedHands THEN rainStrength \div waterSpeed ELSE 0

Invoked(f) ==
    Cardinality({i \in DOMAIN invocations : invocations[i] = f})

\* C22: each step invokes the registered render functions once each, in the
\* order of their registration, and no others; at any time of a cycle each
\* registered function has been invoked as often as steps were executed,
\* and a function that is not registered not at all
C22_OncePerStepInOrder ==
    /\ [][SimulationStep => invocations' = invocations \o renderFunctionList]_vars
    /\ [](\A f \in RenderFunctions : Invoked(f) = numSteps * Registered(f))

\* addWater was removed and registered again after another function: a
\* cycle of two steps has invoked the two in that order, twice
C22_Witness ==
    /\ mpc = "mark"
    /\ numSteps = 2
    /\ renderFunctionList = <<"other", "addWater">>
    /\ invocations = <<"other", "addWater", "other", "addWater">>

(***************************************************************************)
(* The service of grid requests: requester threads against the foreground  *)
(* thread under fair scheduling, in a sandbox with or without a water      *)
(* table.  Sandbox::Sandbox creates the water table only if the water      *)
(* speed is positive, and the remote server whether or not there is one.   *)
(***************************************************************************)
InitServiceConfig ==
    /\ waterSpeed \in 0..1
    /\ waterTable = (waterSpeed > 0)
    /\ waterMaxSteps = 1
    /\ minStepSize = 0
    /\ controlPipeOpen = FALSE

\* The steps of requester t inside requestGrids
requestGrids(t) ==
    \/ requestGridsLock(t)
    \/ requestGridsTest(t)
    \/ requestGridsRefuse(t)
    \/ requestGridsStore(t)

\* One requester thread, which asks for the water level grid
ServiceRequester ==
    \/ requestGridsCall("r1", Request(0, Addr("r1"), 0, Addr("r1"), Addr("r1")))
    \/ requestGrids("r1")

\* Sandbox::frame and Sandbox::display, once the main loop has called them
ForegroundStep ==
    \/ frameLockNewValue
    \/ frameNoCommand
    \/ displaySkip
    \/ UpdateBlock
    \/ displayCompleteResubmit
    \/ callbackRequestGridsLock
    \/ callbackRequestGrids

NextService ==
    \/ ServiceRequester
    \/ VruiFrame(Epsilon + 1)
    \/ VruiRedisplay
    \/ ForegroundStep

InitServiceSpec ==
    InitChannel /\ InitMain /\ InitHandoff /\ InitServiceConfig
    /\ InitFilterConfig /\ InitFilter /\ InitPipe /\ InitWaterTable

\* Every thread keeps running; the main loop renders a frame only finitely
\* often before it advances the application time
SpecService ==
    /\ InitServiceSpec
    /\ [][NextService]_vars
    /\ WF_vars(ForegroundStep)
    /\ SF_vars(VruiFrame(Epsilon + 1))
    /\ WF_vars(requestGrids("r1"))

(***************************************************************************)
(* Service of accepted requests (SpecService).                             *)
(***************************************************************************)
\* The n-th active request of requester t has been accepted
Accepted(t, n) == numGranted[t] = n

\* The callback of the n-th accepted request of t has been invoked; its
\* request was taken out of the slot, which clears the slot, before that
Serviced(t, n) == numCompleted[t] >= n

C25_BathymetryOncePerCycle ==
    [][bathymetryVersion' # bathymetryVersion =>
          /\ mpc = "updateBathymetry"
          /\ ~bathymetryUpdated /\ bathymetryUpdated'
          /\ gridVersion = 0 /\ numSteps' = 0]_vars

\* Two steps have run on the bathymetry written in this cycle while a newer
\* frame, posted since Sandbox::frame locked its frame, waits in the buffer
C25_Witness ==
    /\ mpc = "readBack"
    /\ numSteps = 2
    /\ bathymetryVersion # atStart.bathymetry
    /\ bathymetryVersion = Version(buffer[lockedSlot])
    /\ IsComplete(buffer[readySlot])
    /\ Version(buffer[readySlot]) > bathymetryVersion

(***************************************************************************)
(* The forced minimum step size: the foreground thread alone, in a sandbox *)
(* with a water table, for forced minimum step sizes below and above the   *)
(* budget of a cycle.                                                      *)
(***************************************************************************)
InitMinStepConfig ==
    /\ waterSpeed = 1
    /\ waterTable = TRUE
    /\ waterMaxSteps \in 1..MaxStepsCap
    /\ minStepSize \in 0..MaxForcedStep
    /\ controlPipeOpen = FALSE

\* The step sizes the stability constraint may compute
StepSizes == -1..MaxCfl

NextMinStep ==
    \/ \E dt \in 0..(MaxFrameTime + 1) : VruiFrame(dt)
    \/ VruiRedisplay
    \/ frameLockNewValue
    \/ frameNoCommand
    \/ displaySkip
    \/ UpdateBlock

InitMinStepSpec ==
    InitChannel /\ InitMain /\ InitHandoff /\ InitMinStepConfig
    /\ InitFilterConfig /\ InitFilter /\ InitPipe /\ InitWaterTable

SpecMinStep ==
    InitMinStepSpec /\ [][NextMinStep]_vars

(***************************************************************************)
(* Steps of zero or negative computed size (SpecMinStep).                  *)
(***************************************************************************)
\* The size of the step just executed
TimeStep == executed' - executed

\* C26, as stated: a step whose computed size is zero or negative has the
\* configured minimum step size; every step has a size above zero and not
\* below the configured minimum, and the remaining budget never increases
C26_MinimumStepForced ==
    [][\A cfl \in StepSizes :
          displayStep(cfl) =>
              /\ cfl <= 0 => TimeStep = minStepSize
              /\ TimeStep > 0
              /\ TimeStep >= minStepSize
              /\ totalTimeStep' <= totalTimeStep]_vars

\* C26, amended: a step whose computed size is zero or negative has the
\* configured minimum step size limited to the remaining budget; no step
\* has a negative size or one below that limit, a step under a positive
\* configured minimum has a size above zero, and the remaining budget never
\* increases
C26_MinimumStepWithinBudget ==
    [][\A cfl \in StepSizes :
          displayStep(cfl) =>
              /\ cfl <= 0 => TimeStep = Min(minStepSize, totalTimeStep)
              /\ TimeStep >= 0
              /\ TimeStep >= Min(minStepSize, totalTimeStep)
              /\ minStepSize > 0 => TimeStep > 0
              /\ totalTimeStep' = totalTimeStep - TimeStep
              /\ totalTimeStep' <= totalTimeStep]_vars

\* Without a forced minimum, two steps of computed size zero or less have
\* run and have left the whole budget
C26_Witness ==
    /\ mpc = "loop"
    /\ minStepSize = 0
    /\ numSteps = 2
    /\ executed = 0
    /\ totalTimeStep = budget /\ budget > Epsilon

\* Under a forced minimum above the budget, one step has used up the budget
C26_WitnessLimited ==
    /\ mpc = "loop"
    /\ minStepSize = MaxForcedStep
    /\ budget = 2
    /\ numSteps = 1
    /\ executed = 2

(***************************************************************************)
(* A completion callback that calls requestGrids (SpecService).            *)
(***************************************************************************)
\* The foreground thread does not hold the mutex when it runs the callback
CallbackOutsideLock == mpc = "callbackLock" => mutex # "main"

\* C27, as stated: the callback runs with the mutex released, and its call
\* of requestGrids is never refused
C27_CallbackSubmitAccepted ==
    /\ CallbackOutsideLock
    /\ callbackResult # "refused"

\* The calls of requestGrids, from threads and from callbacks, that may
\* have been granted
Grants == 1..(MaxSubmits + MaxCycles)

\* C27, amended: the callback runs with the mutex released, so its call of
\* requestGrids gets the mutex in the end; the call is granted exactly if
\* the slot is inactive then, that is if no request was stored since the
\* take, and stores the callback's request; a granted one is completed in a
\* later cycle, if a frame is still to come
C27_CallbackSubmitOutsideLock ==
    /\ [](CallbackOutsideLock)
    /\ (mpc = "callbackLock") ~> (mpc = "mark")
    /\ [][(mpc = "callbackTest" /\ mpc' = "mark") =>
            /\ callbackResult' = "granted" <=> ~isActive(currentRequest)
            /\ callbackResult' = "granted" => currentRequest' = request
            /\ callbackResult' = "refused" => currentRequest' = currentRequest]_vars
    /\ \A n \in Grants :
           (callbackResult = "granted" /\ Total(numGranted) = n
               /\ appTime < MaxCycles) ~> (Total(numCompleted) >= n)

\* The one request a thread has submitted was completed by a callback that
\* asked again, and the request the callback submitted was completed in the
\* next cycle
C27_Witness ==
    /\ mpc = "mark"
    /\ rsubmits = 1
    /\ callbackResult = "granted"
    /\ Total(numGranted) = 2
    /\ Total(numCompleted) = 2

(***************************************************************************)
(* The update block and the application time (SpecService).                *)
(***************************************************************************)
\* C28: the update block is begun at most once at each application time;
\* a call of display after the update block has run at the current
\* application time returns without a step and without a call of
\* getRequest, and steps and calls of getRequest happen only in an update
\* block whose application time differs from the time stamp
C28_UpdateOncePerTime ==
    /\ [](numUpdates <= 1)
    /\ [][(mpc = "display" /\ mpc' # "display" /\ numUpdates >= 1) =>
            /\ mpc' = "vrui"
            /\ UNCHANGED <<numSteps, gridVersion, bathymetryVersion, cycleTakes,
                           numTaken, currentRequest, request, waterTableTime>>]_vars
    /\ [][(numSteps' > numSteps \/ cycleTakes' > cycleTakes) =>
            numUpdates = 1 /\ waterTableTime # appTime]_vars

\* display is called again at an application time whose update block has
\* run, while an active request waits in the slot
C28_Witness ==
    /\ mpc = "display"
    /\ waterTable
    /\ numUpdates = 1
    /\ waterTableTime = appTime
    /\ isActive(currentRequest)

(***************************************************************************)
(* The camera: its thread dispatches raw frames, the frame filter's thread *)
(* posts the frames that come of them, and the foreground thread runs a    *)
(* frame when an update was requested or, while updates are paused,        *)
(* scheduled; the pause is switched between frames.  The sandbox has a     *)
(* water table and with it a hand extractor.  The filter has one           *)
(* averaging slot and no hysteresis, so that every change of the sample    *)
(* gives a new filtered frame.                                             *)
(***************************************************************************)
InitCameraConfig ==
    /\ numAveragingSlots = 1
    /\ minNumSamples = 1
    /\ maxVariance = 0
    /\ hysteresis = 0

\* The Vrui main loop runs a frame once Vrui::requestUpdate() was called or
\* the time of Vrui::scheduleUpdate, which Sandbox::frame calls while
\* updates are paused, has come
VruiWakeUp ==
    /\ updateRequested \/ pauseUpdates
    /\ VruiFrame(Epsilon + 1)

\* The steps of Sandbox::receiveFilteredFrame after the frame filter has
\* called it
PostStep ==
    \/ postCopyFirst
    \/ postCopySecond
    \/ postNewValue
    \/ requestUpdate

\* Sandbox::frame and Sandbox::display, once the main loop has called them
CameraForegroundStep ==
    \/ FrameLock
    \/ frameNoCommand
    \/ displayUpdate
    \/ getRequestLock
    \/ getRequest
    \/ displayUpdateBathymetry
    \/ displayStep(1)
    \/ displayLoopExit
    \/ displayReadBack
    \/ displayComplete
    \/ displayMark

NextCamera ==
    \/ \E sample \in 1..2 : rawDepthFrameDispatcher(sample)
    \/ PostStep
    \/ \E set \in BOOLEAN : pauseUpdatesCallback(set)
    \/ \E newButtonState \in BOOLEAN : eventCallback(newButtonState)
    \/ VruiWakeUp
    \/ CameraForegroundStep

InitCameraSpec ==
    InitChannel /\ InitMain /\ InitHandoff /\ InitChannelConfig
    /\ InitCameraConfig /\ InitFilter /\ InitPipe /\ InitWaterTable

\* Every thread keeps running
SpecCamera ==
    /\ InitCameraSpec
    /\ [][NextCamera]_vars
    /\ WF_vars(PostStep)
    /\ WF_vars(VruiWakeUp)
    /\ WF_vars(CameraForegroundStep)

(***************************************************************************)
(* Pausing the topography (SpecCamera).                                    *)
(***************************************************************************)
\* The camera's thread has just dispatched a raw frame
Dispatch == numRawFrames' = numRawFrames + 1

\* The frame filter's thread has just put a frame into the triple buffer
Post == ppc = "swap" /\ ppc' # "swap"

\* Sandbox::frame has just called lockNewValue
TryLock == mpc = "frame" /\ mpc' # "frame"

\* A frame dispatched while updates are paused does not reach the frame
\* filter, and every frame reaches the hand extractor if there is one
PausedDispatch ==
    [][Dispatch =>
          /\ pauseUpdates => UNCHANGED <<filterVars, posted, ppc>>
          /\ ~pauseUpdates => numTicks' = numTicks + 1
          /\ waterTable => numHandFrames' = numHandFrames + 1]_vars

\* A press of the pause button or a click of the toggle inverts
\* pauseUpdates, nothing else changes it, and the toggle shows it
PauseButton ==
    /\ [][(numPresses' = numPresses + 1) <=> (pauseUpdates' = ~pauseUpdates)]_vars
    /\ [](pauseUpdatesToggle = pauseUpdates)

\* C29: a frame dispatched while updates are paused does not reach the
\* frame filter but does reach the hand extractor; the filter begins to
\* post no frame during the pause, and once the frames it was given before
\* have drained, that is once its thread is idle and no new frame waits in
\* the buffer, no frame is posted and lockNewValue returns false for as
\* long as the pause lasts; a press of the pause button inverts
\* pauseUpdates and the toggle shows it
C29_PausedNoNewFrame ==
    /\ PausedDispatch
    /\ PauseButton
    /\ [][pauseUpdates => posted' = posted]_vars
    /\ [][(pauseUpdates /\ pauseUpdates' /\ ppc = "idle" /\ ~hasNewValue) =>
            /\ ppc' = "idle" /\ ~hasNewValue'
            /\ ~Post
            /\ TryLock => mpc' = "controlPipe"]_vars

\* Updates were paused after the first raw frame: the frames dispatched
\* since did not reach the frame filter but did reach the hand extractor,
\* the first frame was handed over in the first frame of the main loop, and
\* lockNewValue has just returned false in the second
C29_Witness ==
    /\ pauseUpdates
    /\ numPresses = 1
    /\ waterTable
    /\ numHandFrames = MaxFrames
    /\ numTicks = 1
    /\ posted = 1
    /\ depthImage = Frame(1)
    /\ numObserved = 1
    /\ appTime = 2
    /\ mpc = "controlPipe"

(***************************************************************************)
(* Liveness of the frame hand-off (SpecCamera).                            *)
(***************************************************************************)
\* Frame v is complete in the ready slot and newer than the locked frame
Ready(v) ==
    /\ buffer[readySlot] = Frame(v)
    /\ hasNewValue

\* C30: a post is followed by a request for an update; a frame posted
\* while the main loop still has a frame to run is eventually handed to the
\* depth image renderer unless a newer one is; so is the last frame posted
C30_PostedEventuallyConsumed ==
    /\ (ppc = "requestUpdate") ~> (ppc = "idle" /\ updateRequested)
    /\ [][(ppc = "requestUpdate" /\ ppc' = "idle") => updateRequested']_vars
    /\ \A v \in 1..MaxFrames :
           (Ready(v) /\ appTime < MaxCycles)
               ~> (IsComplete(depthImage) /\ Version(depthImage) >= v)
    /\ (posted = MaxFrames /\ ppc = "idle" /\ appTime < MaxCycles)
           ~> (depthImage = Frame(MaxFrames))

\* The last frame the filter posts has been handed to the depth image
\* renderer after a request for an update woke the main loop
C30_Witness ==
    /\ posted = MaxFrames
    /\ ppc = "idle"
    /\ depthImage = Frame(MaxFrames)
    /\ ~pauseUpdates /\ numPresses = 0

====
